---- MODULE Spec2Model ----
\* A model of the IBKR Flex Query service of edgerunner-v2
\* (backend/src/services/flex_query_service.py): the job registry
\* (active_queries), the submission (execute_flex_query), the fetch with
\* retries (get_flex_query_data) and the completion waiter
\* (wait_for_query_completion), driven by a remote service that answers each
\* request with any document or failure the protocol allows.
\* The connection health monitor (backend/src/services/connection_health.py)
\* is modelled with its loop and its forced checks as tasks that interleave
\* at their awaits, against adapters that report any status or raise.
\*
\* Texts are sequences of words; lower-casing and substring search are computed
\* word by word.  Elapsed time is counted in whole seconds.
EXTENDS Integers, Sequences, FiniteSets, TLC

\* ---------------------------------------------------------------- bounds
\* How many submissions the remote accepts (it issues one fresh reference each).
MaxSubmits == 2
\* How many top-level service calls one behaviour makes.
MaxCalls == 3
\* Longest time (seconds) one request stays in flight during a wait.
MaxLatency == 1
\* One more than the largest max_wait_time a caller passes to a wait.
MaxWaitLimit == 13
\* How many requests one behaviour makes through the routes.
MaxRouteCalls == 2

\* How many checks one behaviour starts.
MaxChecks == 4
\* How many subscribers register.
MaxCallbacks == 2
\* How many monitoring loops are alive at once at most.
MaxLoops == 2
\* How many forced checks are in flight at once.
MaxForced == 1

\* ------------------------------------------------------------------ text
\* None of Python, for a text-valued Optional field or element.
None == <<"<None>">>

\* str.lower(), word by word.
LowerWord(w) ==
    CASE w = "Statement" -> "statement"
      [] w = "STATEMENT" -> "statement"
      [] w = "Not" -> "not"
      [] w = "Ready" -> "ready"
      [] w = "Report" -> "report"
      [] w = "Generation" -> "generation"
      [] w = "Timeout" -> "timeout"
      [] w = "Error" -> "error"
      [] w = "HTTP" -> "http"
      [] w = "Flex" -> "flex"
      [] w = "Token" -> "token"
      [] w = "Unknown" -> "unknown"
      [] w = "Service" -> "service"
      [] w = "Unavailable" -> "unavailable"
      [] w = "Request" -> "request"
      [] w = "Connection" -> "connection"
      [] w = "Found" -> "found"
      [] w = "Server" -> "server"
      [] OTHER -> w

Lower(s) == [i \in 1..Len(s) |-> LowerWord(s[i])]

\* Python's `needle in hay` on texts.
Contains(hay, needle) ==
    \E i \in 0..(Len(hay) - Len(needle)) :
        \A j \in 1..Len(needle) : hay[i + j] = needle[j]

\* The "statement not ready" phrases of get_flex_query_data and of
\* wait_for_query_completion (the same four, in a different order).
NotReadyPhrases ==
    { <<"statement", "not", "yet", "available">>,
      <<"statement", "is", "being", "generated">>,
      <<"report", "generation", "in", "progress">>,
      <<"statement", "not", "ready">> }

HasNotReadyPhrase(text) == \E p \in NotReadyPhrases : Contains(text, p)

\* f"Error {code}: {msg}" of both operations; an absent element prints its default.
ErrorText(code, msg, codeDefault) ==
    <<"Error">> \o (IF code = None THEN codeDefault ELSE code) \o <<":">>
      \o (IF msg = None THEN <<"Unknown", "error">> ELSE msg)

\* f"HTTP {response.status}: {await response.text()}"
HttpText(status, body) == <<"HTTP", ToString(status), ":">> \o body

\* ------------------------------------------------------- registry, handles
\* FlexQueryStatus
PENDING == "pending"
RUNNING == "running"
COMPLETED == "completed"
FAILED == "failed"

\* datetime.now(), as the one value a set timestamp has.
Now == <<"now">>

\* FlexQueryResponse(query_id, reference_code, status, created_at,
\*                   completed_at = None, error_message = None)
FlexQueryResponse(query_id, reference_code, status, error_message) ==
    [query_id |-> query_id, reference_code |-> reference_code,
     status |-> status, created_at |-> Now, completed_at |-> None,
     error_message |-> error_message]

\* active_queries[key] = value
Put(reg, key, value) ==
    [k \in DOMAIN reg \cup {key} |-> IF k = key THEN value ELSE reg[k]]

\* get_query_status: active_queries.get(reference_code)
GetQueryStatus(reg, reference_code) ==
    IF reference_code \in DOMAIN reg
    THEN [kind |-> "handle", handle |-> reg[reference_code]]
    ELSE [kind |-> "none"]

\* An exception raised with str(e) = text; a value returned.
Raise(text) == [raised |-> TRUE, text |-> text]

\* ------------------------------------------------------------ the remote
\* The i-th reference the remote issues, as the text of <ReferenceCode>.
RefText(i) == <<ToString(i)>>

\* A reference no submission of this process was given.
UnknownRef == <<"unknown">>

\* xml.etree's ParseError on a body that is not XML.
ParseErrorText == <<"syntax", "error">>

\* str(e) of the exceptions the HTTP client raises: a connection failure, a
\* socket read timeout, and asyncio.TimeoutError() (the total timeout), whose
\* text is empty.
TransportErrors ==
    { <<"Connection", "reset">>,
      <<"Timeout", "on", "reading", "data", "from", "socket">>,
      <<>> }

\* The root of a response document: the text of each envelope element (None
\* when the element is absent) and the other elements in document order.
XmlRoot(status, code, msg, ref, elems) ==
    [Status |-> status, ErrorCode |-> code, ErrorMessage |-> msg,
     ReferenceCode |-> ref, elems |-> elems]

XmlResponse(root) == [t |-> "xml", status |-> 200, root |-> root]

HttpResponse(status, body) == [t |-> "http", status |-> status, body |-> body]

\* What SendRequest may answer when `fresh` is the next unused reference.
SendResponses(fresh) ==
    { XmlResponse(XmlRoot(<<"Success">>, None, None, fresh, <<>>)),
      XmlResponse(XmlRoot(<<"Success">>, None, None, None, <<>>)),
      XmlResponse(XmlRoot(<<"Fail">>, <<"1012">>,
                          <<"Token", "has", "expired">>, None, <<>>)),
      XmlResponse(XmlRoot(<<"Fail">>, None, None, None, <<>>)),
      XmlResponse(XmlRoot(None, None, None, None, <<>>)),
      HttpResponse(503, <<"Service", "Unavailable">>),
      [t |-> "badxml", status |-> 200] }
    \cup { [t |-> "exc", text |-> x] : x \in TransportErrors }

\* The remote accepted the submission: transport OK, Status = Success and a
\* ReferenceCode present.
Accepted(resp) ==
    /\ resp.t = "xml"
    /\ resp.root.Status = <<"Success">>
    /\ resp.root.ReferenceCode # None

\* ------------------------------------------------------------ submission
\* A submission that returns its handle without storing it.
MutRegisterNothing(reg, flex_response) == reg

\* A registry keyed by the caller's query id instead of the reference.
MutRegisterByQueryId(reg, flex_response) ==
    Put(reg, <<flex_response.query_id>>, flex_response)

\* self.active_queries[reference_code] = flex_response (line 98)
RegisterHandle(reg, flex_response) ==
    Put(reg, flex_response.reference_code, flex_response)

\* execute_flex_query, the body of its try block (lines 50-101).
SendRequestBody(reg, query_id, resp) ==
    IF resp.t = "exc" THEN Raise(resp.text)
    ELSE IF resp.status # 200 THEN Raise(HttpText(resp.status, resp.body))
    ELSE IF resp.t = "badxml" THEN Raise(ParseErrorText)
    ELSE IF resp.root.Status = None
    THEN Raise(<<"Invalid", "response", "format", ":", "no", "Status", "element">>)
    ELSE IF resp.root.Status # <<"Success">>
    THEN Raise(ErrorText(resp.root.ErrorCode, resp.root.ErrorMessage, <<"Unknown">>))
    ELSE IF resp.root.ReferenceCode = None
    THEN Raise(<<"No", "reference", "code", "in", "response">>)
    ELSE LET flex_response ==
                 FlexQueryResponse(query_id, resp.root.ReferenceCode, RUNNING, None)
         IN  [raised |-> FALSE, value |-> flex_response,
              reg |-> RegisterHandle(reg, flex_response)]

\* execute_flex_query: the try block, and its except clause that turns every
\* exception into a returned FAILED handle.
ExecuteFlexQuery(reg, query_id, resp) ==
    LET r == SendRequestBody(reg, query_id, resp)
    IN  IF r.raised
        THEN [raised |-> FALSE, reg |-> reg,
              value |-> FlexQueryResponse(query_id, None, FAILED, r.text)]
        ELSE r

\* ---------------------------------------------------------------- parser
\* float(text): the value in hundredths, for the texts that are numbers.
FloatOf(x) ==
    CASE x = "100" -> 10000
      [] x = "-40" -> -4000
      [] x = "10" -> 1000
      [] x = "1.5" -> 150
      [] x = "0" -> 0

IsNumber(x) == x \in {"100", "-40", "10", "1.5", "0"}

\* ValueError of float(x)
ValueErrorText(x) == <<"could", "not", "convert", "string", "to", "float", ":", x>>

\* d[new] = d.pop(old), when old is a key
Rename(d, old, new) ==
    IF old \in DOMAIN d
    THEN [k \in (DOMAIN d \ {old}) \cup {new} |-> IF k = new THEN d[old] ELSE d[k]]
    ELSE d

\* d[key] = float(d[key]), when key is a key (the caller has checked the text)
ToFloat(d, key) ==
    IF key \in DOMAIN d THEN [d EXCEPT ![key] = FloatOf(d[key])] ELSE d

\* d[new] = d[old], when old is a key (old is kept)
CopyKey(d, old, new) ==
    IF old \in DOMAIN d
    THEN [k \in DOMAIN d \cup {new} |-> IF k = new THEN d[old] ELSE d[k]]
    ELSE d

\* The first of `keys` (in the order the code converts them) that is an
\* attribute whose text float() rejects; 0 when there is none.
FirstBad(attrib, keys) ==
    LET bad == {i \in 1..Len(keys) :
                    keys[i] \in DOMAIN attrib /\ ~IsNumber(attrib[keys[i]])}
    IN  IF bad = {} THEN 0 ELSE CHOOSE i \in bad : \A j \in bad : i <= j

\* A trade record that keeps the source's name of realizedPL.
MutTradeRecordNoRename(attrib) ==
    LET keys == <<"quantity", "price", "proceeds", "commission", "realizedPL">>
        b == FirstBad(attrib, keys)
    IN  IF b # 0 THEN Raise(ValueErrorText(attrib[keys[b]]))
        ELSE [raised |-> FALSE, value |->
                ToFloat(ToFloat(ToFloat(ToFloat(ToFloat(
                  Rename(Rename(attrib, "tradeDate", "trade_date"),
                         "settleDate", "settle_date"),
                  "quantity"), "price"), "proceeds"), "commission"), "realizedPL")]

\* One record of _parse_trade_records (lines 241-258), or the ValueError.
TradeRecord(attrib) ==
    LET keys == <<"quantity", "price", "proceeds", "commission", "realizedPL">>
        b == FirstBad(attrib, keys)
    IN  IF b # 0 THEN Raise(ValueErrorText(attrib[keys[b]]))
        ELSE [raised |-> FALSE, value |->
                Rename(ToFloat(ToFloat(ToFloat(ToFloat(ToFloat(
                  Rename(Rename(attrib, "tradeDate", "trade_date"),
                         "settleDate", "settle_date"),
                  "quantity"), "price"), "proceeds"), "commission"), "realizedPL"),
                  "realizedPL", "realized_pnl")]

\* One record of _parse_cash_transactions (lines 265-272).
CashRecord(attrib) ==
    LET b == FirstBad(attrib, <<"amount">>)
    IN  IF b # 0 THEN Raise(ValueErrorText(attrib["amount"]))
        ELSE [raised |-> FALSE, value |->
                Rename(ToFloat(attrib, "amount"), "dateTime", "date")]

\* One record of _parse_position_records (lines 279-290).
PositionRecord(attrib) ==
    LET keys == <<"position", "markPrice", "positionValue", "unrealizedPL">>
        b == FirstBad(attrib, keys)
    IN  IF b # 0 THEN Raise(ValueErrorText(attrib[keys[b]]))
        ELSE [raised |-> FALSE, value |->
                Rename(Rename(Rename(
                  ToFloat(ToFloat(ToFloat(ToFloat(attrib, "position"),
                          "markPrice"), "positionValue"), "unrealizedPL"),
                  "markPrice", "mark_price"), "positionValue", "position_value"),
                  "unrealizedPL", "unrealized_pnl")]

\* One record of _parse_dividend_records (lines 297-304).
DividendRecord(attrib) ==
    LET b == FirstBad(attrib, <<"totalCash">>)
    IN  IF b # 0 THEN Raise(ValueErrorText(attrib["totalCash"]))
        ELSE [raised |-> FALSE, value |->
                CopyKey(Rename(ToFloat(attrib, "totalCash"), "totalCash", "amount"),
                        "date", "ex_date")]

\* The record of one element, by the data type chosen for the document.
RecordOf(data_type, attrib) ==
    CASE data_type = "trades" -> TradeRecord(attrib)
      [] data_type = "cash_transactions" -> CashRecord(attrib)
      [] data_type = "positions" -> PositionRecord(attrib)
      [] data_type = "dividends" -> DividendRecord(attrib)
      [] OTHER -> [raised |-> FALSE, value |-> attrib]

\* root.find(".//tag") is not None
HasTag(elems, tag) == \E i \in 1..Len(elems) : elems[i].tag = tag

\* The subsequence of the elements that satisfy Keep, in document order.
RECURSIVE SelectElems(_, _, _)
SelectElems(elems, data_type, tag) ==
    IF elems = <<>> THEN <<>>
    ELSE LET e == Head(elems)
             keep == IF data_type = "generic"
                     THEN /\ DOMAIN e.attrib # {}
                          /\ e.tag \notin {"FlexQueryResponse", "FlexStatements",
                                           "FlexStatement"}
                     ELSE e.tag = tag
         IN  (IF keep THEN <<e>> ELSE <<>>)
               \o SelectElems(Tail(elems), data_type, tag)

\* A choice of data type that looks for cash transactions first.
MutDataTypeOfCashFirst(elems) ==
    IF HasTag(elems, "CashTransaction") THEN "cash_transactions"
    ELSE IF HasTag(elems, "Trade") THEN "trades"
    ELSE IF HasTag(elems, "OpenPosition") THEN "positions"
    ELSE IF HasTag(elems, "ChangeInDividendAccrual") THEN "dividends"
    ELSE "generic"

\* The data type _parse_flex_query_xml chooses (lines 210-227).
DataTypeOf(elems) ==
    IF HasTag(elems, "Trade") THEN "trades"
    ELSE IF HasTag(elems, "CashTransaction") THEN "cash_transactions"
    ELSE IF HasTag(elems, "OpenPosition") THEN "positions"
    ELSE IF HasTag(elems, "ChangeInDividendAccrual") THEN "dividends"
    ELSE "generic"

\* The tag whose elements are the records of a data type.
TagOf(data_type) ==
    CASE data_type = "trades" -> "Trade"
      [] data_type = "cash_transactions" -> "CashTransaction"
      [] data_type = "positions" -> "OpenPosition"
      [] data_type = "dividends" -> "ChangeInDividendAccrual"
      [] OTHER -> ""

\* _parse_flex_query_xml: the FlexQueryData, or the first ValueError of a
\* record's conversion (the records are converted in document order).
ParseFlexQueryXml(root, reference_code) ==
    LET data_type == DataTypeOf(root.elems)
        chosen == SelectElems(root.elems, data_type, TagOf(data_type))
        recs == [i \in 1..Len(chosen) |-> RecordOf(data_type, chosen[i].attrib)]
        bad == {i \in 1..Len(recs) : recs[i].raised}
    IN  IF bad # {}
        THEN Raise(recs[CHOOSE i \in bad : \A j \in bad : i <= j].text)
        ELSE [raised |-> FALSE, value |->
                [query_id |-> reference_code, data_type |-> data_type,
                 records |-> [i \in 1..Len(recs) |-> recs[i].value],
                 total_records |-> Len(recs), generated_at |-> Now]]

\* The parts of a data document.
Elem(tag, attrib) == [tag |-> tag, attrib |-> attrib]

NoAttrib == [k \in {} |-> ""]

TradeElem(quantity, realizedPL) ==
    Elem("Trade", [k \in {"symbol", "tradeDate", "quantity", "realizedPL"} |->
                     CASE k = "symbol" -> "AAPL"
                       [] k = "tradeDate" -> "20240102"
                       [] k = "quantity" -> quantity
                       [] k = "realizedPL" -> realizedPL])

\* The data documents the remote serves in this model: one trade, and one
\* trade whose quantity is not a number.
DataDocuments ==
    { <<Elem("FlexStatement", [k \in {"accountId"} |-> "U1"]), Elem("Trades", NoAttrib),
        TradeElem("10", "100")>>,
      <<Elem("Trades", NoAttrib), TradeElem("abc", "100")>> }

\* ------------------------------------------------ GetStatement responses
\* ErrorMessage texts that carry one of the four "not ready" phrases, in
\* several casings and once inside a longer sentence.
NotReadyMessages ==
    { <<"Statement", "not", "yet", "available">>,
      <<"statement", "is", "being", "generated">>,
      <<"Report", "Generation", "in", "progress">>,
      <<"Token", "invalid", ",", "STATEMENT", "Not", "Ready">> }

\* <ErrorCode>, <ErrorMessage> pairs of a GetStatement error document.
ErrorPairs ==
    { <<(<<"1019">>), m>> : m \in NotReadyMessages }
    \cup { <<(<<"1012">>), <<"Token", "has", "expired">>>>,
           <<(<<"1020">>), <<"Server", "timeout">>>>,
           <<(<<"1001">>), None>> }

\* What GetStatement may answer.
GetResponses ==
    { [t |-> "exc", text |-> x] : x \in TransportErrors }
    \cup { HttpResponse(503, <<"Service", "Unavailable">>),
           HttpResponse(408, <<"Request", "Timeout">>),
           HttpResponse(404, <<"Not", "Found">>),
           [t |-> "badxml", status |-> 200] }
    \cup { XmlResponse(XmlRoot(None, p[1], p[2], None, <<>>)) : p \in ErrorPairs }
    \cup { XmlResponse(XmlRoot(None, None, None, None, d)) : d \in DataDocuments }
    \cup { XmlResponse(XmlRoot(None, <<"0">>, None, None,
                               <<Elem("FlexStatement", [k \in {"accountId"} |-> "U1"])>>)) }

\* The remote's own view of a response: the job's output ("data"); "still
\* generating" ("notready": an error document whose ErrorMessage holds one of
\* the phrases, in any casing); any other error document ("remote_fatal"); a
\* transport failure of the retryable class ("transport": 5xx, 408, a
\* connection or timeout exception); or another failure ("other").
ResponseClass(resp) ==
    IF resp.t = "none" THEN "none"
    ELSE IF resp.t = "exc" THEN "transport"
    ELSE IF resp.status # 200
    THEN (IF resp.status >= 500 \/ resp.status = 408 THEN "transport" ELSE "other")
    ELSE IF resp.t = "badxml" THEN "other"
    ELSE IF resp.root.ErrorCode # None /\ resp.root.ErrorCode # <<"0">>
    THEN (IF resp.root.ErrorMessage # None
             /\ HasNotReadyPhrase(Lower(resp.root.ErrorMessage))
          THEN "notready" ELSE "remote_fatal")
    ELSE "data"

\* --------------------------------------------------- get_flex_query_data
\* A failure mark that creates the entry when the reference is not a key.
MutMarkFailedCreates(reg, reference_code, text) ==
    Put(reg, reference_code, FlexQueryResponse("", reference_code, FAILED, text))

\* active_queries[ref].status = FAILED; .error_message = text, when ref is a key
MarkFailed(reg, reference_code, text) ==
    IF reference_code \in DOMAIN reg
    THEN [reg EXCEPT ![reference_code].status = FAILED,
                     ![reference_code].error_message = text]
    ELSE reg

\* active_queries[ref].status = COMPLETED; .completed_at = now, when ref is a key
MarkCompleted(reg, reference_code) ==
    IF reference_code \in DOMAIN reg
    THEN [reg EXCEPT ![reference_code].status = COMPLETED,
                     ![reference_code].completed_at = Now]
    ELSE reg

Min(a, b) == IF a <= b THEN a ELSE b

\* asyncio.sleep(wait_time); continue
SleepThenRetry(reg, wait_time) == [kind |-> "sleep", wait_time |-> wait_time, reg |-> reg]

\* One iteration of the retry loop, the try block (lines 117-179): the
\* response is turned into a return, a sleep before the next attempt, or a
\* raised exception (which the except clause below receives).
GetTryBlock(reg, reference_code, attempt, max_retries, resp) ==
    IF resp.t = "exc" THEN Raise(resp.text)
    ELSE IF resp.status # 200
    THEN IF (resp.status >= 500 \/ resp.status = 408) /\ attempt < max_retries - 1
         THEN SleepThenRetry(reg, (2 ^ attempt) + 1)
         ELSE Raise(HttpText(resp.status, resp.body))
    ELSE IF resp.t = "badxml" THEN Raise(ParseErrorText)
    ELSE IF resp.root.ErrorCode # None /\ resp.root.ErrorCode # <<"0">>
    THEN LET error_text == ErrorText(resp.root.ErrorCode, resp.root.ErrorMessage, <<>>)
         IN  IF HasNotReadyPhrase(Lower(error_text)) /\ attempt < max_retries - 1
             THEN SleepThenRetry(reg, Min(15 + (attempt * 15), 180))
             ELSE Raise(error_text)
    ELSE LET flex_data == ParseFlexQueryXml(resp.root, reference_code)
         IN  IF flex_data.raised THEN flex_data
             ELSE [kind |-> "return", value |-> flex_data.value,
                   reg |-> MarkCompleted(reg, reference_code)]

\* An except clause that re-raises after the last attempt without marking
\* the entry.
MutGetExceptLastUnmarked(reg, reference_code, attempt, max_retries, text) ==
    IF attempt = max_retries - 1
    THEN [kind |-> "raise", text |-> text, reg |-> reg]
    ELSE IF \/ Contains(Lower(text), <<"statement", "not", "yet", "available">>)
            \/ Contains(Lower(text), <<"timeout">>)
    THEN SleepThenRetry(reg, (2 ^ attempt) + 10)
    ELSE [kind |-> "raise", text |-> text, reg |-> MarkFailed(reg, reference_code, text)]

\* The except clause (lines 181-201) for an exception with str(e) = text.
GetExcept(reg, reference_code, attempt, max_retries, text) ==
    IF attempt = max_retries - 1
    THEN [kind |-> "raise", text |-> text, reg |-> MarkFailed(reg, reference_code, text)]
    ELSE IF \/ Contains(Lower(text), <<"statement", "not", "yet", "available">>)
            \/ Contains(Lower(text), <<"timeout">>)
    THEN SleepThenRetry(reg, (2 ^ attempt) + 10)
    ELSE [kind |-> "raise", text |-> text, reg |-> MarkFailed(reg, reference_code, text)]

\* One iteration of the retry loop of get_flex_query_data.
GetAttempt(reg, reference_code, attempt, max_retries, resp) ==
    LET r == GetTryBlock(reg, reference_code, attempt, max_retries, resp)
    IN  IF "raised" \in DOMAIN r
        THEN GetExcept(reg, reference_code, attempt, max_retries, r.text)
        ELSE r

\* ---------------------------------------------- wait_for_query_completion
\* A wait whose fetch keeps max_retries' default (line 112).
MutWaitMaxRetries == 8

\* max_retries of the fetch a wait makes (line 409).
WaitMaxRetries == 1

\* max_retries of the flex route's fetch (routes/flex.py line 96).
RouteMaxRetries == 3

\* check_interval's default (line 395).
DefaultCheckInterval == 10

\* A schedule with no middle step: check_interval, then 20 seconds.
MutWaitTimeTwoSteps(attempt, check_interval) ==
    IF attempt < 6 THEN check_interval ELSE 20

\* The delay before the next poll (lines 431-436).
WaitTime(attempt, check_interval) ==
    IF attempt < 6 THEN check_interval
    ELSE IF attempt < 18 THEN 15
    ELSE 20

\* A timeout message that leaves the reference out.
MutTimeoutTextNoRef(reference_code, elapsed) ==
    <<"Flex", "query", "timed", "out", "after", ToString(elapsed), "seconds">>

\* f"Flex query {reference_code} timed out after {elapsed:.0f} seconds"
TimeoutText(reference_code, elapsed) ==
    <<"Flex", "query">> \o reference_code
      \o <<"timed", "out", "after", ToString(elapsed), "seconds">>

\* A wait loop that sleeps and polls again after every failure of the fetch.
MutWaitExceptRetryAll(wt, text) ==
    [wt EXCEPT !.pc = "sleep", !.attempt = @ + 1,
               !.wait_time = WaitTime(wt.attempt, wt.check_interval),
               !.wake = wt.elapsed + WaitTime(wt.attempt, wt.check_interval)]

\* A wait loop that gives up after its second "not ready" poll.
MutWaitExceptAttemptCap(wt, text) ==
    IF HasNotReadyPhrase(Lower(text)) /\ wt.attempt < 1
    THEN [wt EXCEPT !.pc = "sleep", !.attempt = @ + 1,
                    !.wait_time = WaitTime(wt.attempt, wt.check_interval),
                    !.wake = wt.elapsed + WaitTime(wt.attempt, wt.check_interval)]
    ELSE [wt EXCEPT !.pc = "done"]

\* A wait loop that logs its progress at every "not ready" poll.
MutWaitExceptLogEveryPoll(wt, text) ==
    IF HasNotReadyPhrase(Lower(text))
    THEN [wt EXCEPT !.pc = "sleep",
                    !.last_log = wt.elapsed,
                    !.progress = Append(@, wt.elapsed),
                    !.attempt = @ + 1,
                    !.wait_time = WaitTime(wt.attempt, wt.check_interval),
                    !.wake = wt.elapsed + WaitTime(wt.attempt, wt.check_interval)]
    ELSE [wt EXCEPT !.pc = "done"]

\* The except clause of the wait loop (lines 414-444) for an exception of the
\* fetch with str(e) = text: the waiter's next state, asleep or ended.
WaitExcept(wt, text) ==
    IF HasNotReadyPhrase(Lower(text))
    THEN LET logged == (wt.elapsed - wt.last_log) >= 30
             wait_time == WaitTime(wt.attempt, wt.check_interval)
         IN  [wt EXCEPT !.pc = "sleep",
                        !.last_log = IF logged THEN wt.elapsed ELSE @,
                        !.progress = IF logged THEN Append(@, wt.elapsed) ELSE @,
                        !.attempt = @ + 1,
                        !.wait_time = wait_time,
                        !.wake = wt.elapsed + wait_time]
    ELSE [wt EXCEPT !.pc = "done"]

\* The loop condition (line 406).
WithinBudget(wt) == wt.elapsed < wt.max_wait_time

\* ----------------------------------------------------------------- state
VARIABLES
    registry,    \* active_queries: reference text -> handle
    next_ref,    \* how many references the remote has issued
    calls,       \* how many service calls have been started
    pc,          \* the call in progress: "idle", "get" or "wait"
    ret,         \* what the last finished call returned or raised
    reg_before,  \* the registry when the last call started
    rsp,         \* the response of the remote that ended the last call
    r_count,     \* this call: requests the remote received; its "not ready"
                 \* answers; its other error documents
    g,           \* the frame of get_flex_query_data
    w,           \* the frame of wait_for_query_completion
    via,         \* the route handler the call in progress came through
    px,          \* the frame of a parse of a document
    mx,          \* the frame of calculate_performance_metrics
    hm,          \* the frame of _determine_health_status
    monitoring,  \* ConnectionHealthMonitor.monitoring
    callbacks,   \* ConnectionHealthMonitor.callbacks
    health_checks,      \* ConnectionHealthMonitor.health_checks
    recovery_attempts,  \* ConnectionHealthMonitor.recovery_attempts
    clock,       \* how many checks have read datetime.now() as their start
    task,        \* the monitoring loops and the forced checks: where each is
    done         \* the check that ended last: what it saw and what it did

\* The variables of the flex service and of its routes.
service_vars ==
    <<registry, next_ref, calls, pc, ret, reg_before, rsp, r_count, g, w, via>>

\* The variables of the connection health monitor.
monitor_vars ==
    <<monitoring, callbacks, health_checks, recovery_attempts, clock, task, done>>

\* The variables of the other components.
other_vars == <<px, mx, hm, monitor_vars>>

vars == <<service_vars, other_vars>>

QueryIds == {"Q1", "Q2"}

EmptyRegistry == [k \in {} |-> FlexQueryResponse("", None, PENDING, None)]

GOff == [pc |-> "off", reference_code |-> None, max_retries |-> 0,
         attempt |-> 0, last_sleep |-> 0, lat |-> 0]

WOff == [pc |-> "off", reference_code |-> None, max_wait_time |-> 0,
         check_interval |-> 0, elapsed |-> 0, attempt |-> 0, last_log |-> 0,
         progress |-> <<>>, wait_time |-> 0, wake |-> 0, iters |-> 0]

NoResponse == [t |-> "none"]

NoCount == [sends |-> 0, gets |-> 0, notready |-> 0, fatal |-> 0]

\* A call made on the service itself, through no route.
ServiceCall == [route |-> "service", pc |-> "none"]

POff == [pc |-> "off"]

MOff == [pc |-> "off"]

HOff == [pc |-> "off"]

\* broker_id=None of force_health_check.
NoBroker == "<None>"

\* No sub-check is made: the target is not connected.
NoProbe == [account |-> "none"]

\* {} of Python.
EmptyDict == [k \in {} |-> 0]

\* The tasks: start_monitoring coroutines and force_health_check calls.
LoopTasks == {<<"loop", i>> : i \in 1..MaxLoops}

ForcedTasks == {<<"forced", i>> : i \in 1..MaxForced}

Tasks == LoopTasks \cup ForcedTasks

\* No forced check of one target has ended in this task yet.
NoLast == [broker_id |-> NoBroker, raised |-> FALSE, status |-> "none",
           probe |-> NoProbe, health |-> "none", again |-> FALSE,
           health_before |-> "none"]

\* A task that is not running.  broker_id: the target of a forced check of one
\* target; i: the position in the broker list otherwise; last: the forced check
\* of one target that ended last in this task, whether the one before it had
\* the same target and saw the same status and sub-check outcomes (again), and
\* the health that one reported.
TOff == [pc |-> "off", broker_id |-> NoBroker, i |-> 0, start_time |-> 0,
         last |-> NoLast]

NoDone == [pc |-> "none"]

\* The state after __init__ (lines 42-49).
MonitorInit ==
    /\ monitoring = FALSE
    /\ callbacks = <<>>
    /\ health_checks = EmptyDict
    /\ recovery_attempts = EmptyDict
    /\ clock = 0
    /\ task = [t \in Tasks |-> TOff]
    /\ done = NoDone

Init ==
    /\ registry = EmptyRegistry
    /\ next_ref = 0
    /\ calls = 0
    /\ pc = "idle"
    /\ ret = [op |-> "none"]
    /\ reg_before = EmptyRegistry
    /\ rsp = NoResponse
    /\ r_count = NoCount
    /\ g = GOff
    /\ w = WOff
    /\ via = ServiceCall
    /\ px = POff
    /\ mx = MOff
    /\ hm = HOff
    /\ MonitorInit

\* The references a caller may hold: those issued so far, and one never issued.
KnownRefs == {RefText(i) : i \in 1..next_ref} \cup {UnknownRef}

\* A new top-level call starts.
BeginCall ==
    /\ pc = "idle"
    /\ calls < MaxCalls
    /\ calls' = calls + 1
    /\ reg_before' = registry

\* execute_flex_query(query_request), the remote answering resp: the call,
\* whoever makes it.
SubmitCall(query_id, resp) ==
    /\ BeginCall
    /\ resp \in SendResponses(RefText(next_ref + 1))
    /\ Accepted(resp) => next_ref < MaxSubmits
    /\ \E out \in {ExecuteFlexQuery(registry, query_id, resp)} :
           /\ registry' = out.reg
           /\ ret' = IF out.raised
                     THEN [op |-> "submit", kind |-> "raise", text |-> out.text]
                     ELSE [op |-> "submit", kind |-> "return", value |-> out.value,
                           query_id |-> query_id]
    /\ next_ref' = IF Accepted(resp) THEN next_ref + 1 ELSE next_ref
    /\ rsp' = resp
    /\ r_count' = [NoCount EXCEPT !.sends = 1]
    /\ g' = GOff
    /\ w' = WOff
    /\ UNCHANGED pc

\* execute_flex_query(query_request) called on the service.
Submit(query_id, resp) ==
    /\ SubmitCall(query_id, resp)
    /\ via' = ServiceCall
    /\ UNCHANGED other_vars

\* get_query_status(reference_code)
GetStatus(reference_code) ==
    /\ BeginCall
    /\ ret' = [op |-> "status", kind |-> "return", reference_code |-> reference_code,
               value |-> GetQueryStatus(registry, reference_code)]
    /\ r_count' = NoCount
    /\ g' = GOff
    /\ w' = WOff
    /\ rsp' = NoResponse
    /\ via' = ServiceCall
    /\ UNCHANGED <<registry, next_ref, pc>>
    /\ UNCHANGED other_vars

\* get_flex_query_data(reference_code, token, max_retries) is entered.
StartGet(reference_code, max_retries) ==
    /\ BeginCall
    /\ pc' = "get"
    /\ g' = [GOff EXCEPT !.pc = "request", !.reference_code = reference_code,
                         !.max_retries = max_retries]
    /\ w' = WOff
    /\ r_count' = NoCount
    /\ ret' = [op |-> "get", kind |-> "running"]
    /\ rsp' = NoResponse
    /\ UNCHANGED <<registry, next_ref>>

\* get_flex_query_data(reference_code, token, max_retries) called on the service.
GetBegin(reference_code, max_retries) ==
    /\ StartGet(reference_code, max_retries)
    /\ via' = ServiceCall
    /\ UNCHANGED other_vars

\* session.get(.../GetStatement) of the current attempt (line 130).
GetSend ==
    /\ g.pc = "request"
    /\ g' = [g EXCEPT !.pc = "inflight", !.lat = 0]
    /\ r_count' = [r_count EXCEPT !.gets = @ + 1]
    /\ UNCHANGED <<registry, next_ref, calls, pc, ret, reg_before, rsp, w>>
    /\ UNCHANGED <<via, other_vars>>

\* wait_for_query_completion(reference_code, token, max_wait_time,
\* check_interval) is entered.
StartWait(reference_code, max_wait_time, check_interval) ==
    /\ BeginCall
    /\ pc' = "wait"
    /\ w' = [WOff EXCEPT !.pc = "loop", !.reference_code = reference_code,
                         !.max_wait_time = max_wait_time,
                         !.check_interval = check_interval]
    /\ g' = GOff
    /\ r_count' = NoCount
    /\ ret' = [op |-> "wait", kind |-> "running"]
    /\ rsp' = NoResponse
    /\ UNCHANGED <<registry, next_ref>>

\* wait_for_query_completion(...) called on the service.
WaitBegin(reference_code, max_wait_time, check_interval) ==
    /\ StartWait(reference_code, max_wait_time, check_interval)
    /\ via' = ServiceCall
    /\ UNCHANGED other_vars

\* The top of the wait loop, budget left: the fetch of this iteration is
\* called and sends its first request.
WaitFetch ==
    /\ pc = "wait"
    /\ w.pc = "loop"
    /\ WithinBudget(w)
    /\ w' = [w EXCEPT !.pc = "call", !.iters = @ + 1]
    /\ g' = [GOff EXCEPT !.pc = "inflight", !.reference_code = w.reference_code,
                         !.max_retries = WaitMaxRetries]
    /\ r_count' = [r_count EXCEPT !.gets = @ + 1]
    /\ UNCHANGED <<registry, next_ref, calls, pc, ret, reg_before, rsp>>
    /\ UNCHANGED <<via, other_vars>>

\* The top of the wait loop, budget spent (lines 446-456).
WaitTimeout ==
    /\ pc = "wait"
    /\ w.pc = "loop"
    /\ ~WithinBudget(w)
    /\ LET timeout_msg == TimeoutText(w.reference_code, w.elapsed)
       IN  /\ registry' = MarkFailed(registry, w.reference_code, timeout_msg)
           /\ ret' = [op |-> "wait", kind |-> "raise", why |-> "timeout",
                      text |-> timeout_msg]
    /\ w' = [w EXCEPT !.pc = "done"]
    /\ pc' = "idle"
    /\ UNCHANGED <<next_ref, calls, reg_before, rsp, r_count, g>>
    /\ UNCHANGED <<via, other_vars>>

\* One second passes while the waiter sleeps or its request is in flight.
Tick ==
    /\ pc = "wait"
    /\ \/ /\ w.pc = "sleep"
          /\ w.elapsed < w.wake
          /\ g' = g
       \/ /\ w.pc = "call"
          /\ g.pc = "inflight"
          /\ g.lat < MaxLatency
          /\ g' = [g EXCEPT !.lat = @ + 1]
    /\ w' = [w EXCEPT !.elapsed = @ + 1]
    /\ UNCHANGED <<registry, next_ref, calls, pc, ret, reg_before, rsp, r_count>>
    /\ UNCHANGED <<via, other_vars>>

\* asyncio.sleep(wait_time) of the wait loop returns.
WaitWake ==
    /\ pc = "wait"
    /\ w.pc = "sleep"
    /\ w.elapsed >= w.wake
    /\ w' = [w EXCEPT !.pc = "loop"]
    /\ UNCHANGED <<registry, next_ref, calls, pc, ret, reg_before, rsp, r_count, g>>
    /\ UNCHANGED <<via, other_vars>>

\* The remote answers the request in flight; the attempt runs to its end, and
\* with it the caller up to its next suspension.
GetReceive(resp) ==
    /\ g.pc = "inflight"
    /\ resp \in GetResponses
    /\ r_count' = IF ResponseClass(resp) = "notready"
                  THEN [r_count EXCEPT !.notready = @ + 1]
                  ELSE IF ResponseClass(resp) = "remote_fatal"
                  THEN [r_count EXCEPT !.fatal = @ + 1]
                  ELSE r_count
    /\ \E out \in {GetAttempt(registry, g.reference_code, g.attempt,
                                g.max_retries, resp)} :
           /\ registry' = out.reg
           /\ IF out.kind = "sleep"
              THEN /\ g' = [g EXCEPT !.pc = "request", !.attempt = @ + 1,
                                     !.last_sleep = out.wait_time]
                   /\ w' = IF pc = "wait"
                           THEN [w EXCEPT !.elapsed = @ + out.wait_time] ELSE w
                   /\ UNCHANGED <<pc, ret, rsp>>
              ELSE /\ g' = [g EXCEPT !.pc = "done"]
                   /\ IF pc = "get"
                      THEN /\ pc' = "idle"
                           /\ w' = w
                           /\ rsp' = resp
                           /\ ret' = IF out.kind = "return"
                                     THEN [op |-> "get", kind |-> "return",
                                           value |-> out.value]
                                     ELSE [op |-> "get", kind |-> "raise",
                                           text |-> out.text]
                      ELSE IF out.kind = "return"
                      THEN /\ pc' = "idle"
                           /\ w' = [w EXCEPT !.pc = "done"]
                           /\ rsp' = resp
                           /\ ret' = [op |-> "wait", kind |-> "return",
                                      value |-> out.value]
                      ELSE \E wn \in {WaitExcept(w, out.text)} :
                               /\ w' = wn
                               /\ pc' = IF wn.pc = "done" THEN "idle" ELSE pc
                               /\ rsp' = IF wn.pc = "done" THEN resp ELSE rsp
                               /\ ret' = IF wn.pc = "done"
                                         THEN [op |-> "wait", kind |-> "raise",
                                               why |-> "error", text |-> out.text]
                                         ELSE ret
    /\ UNCHANGED <<next_ref, calls, reg_before>>
    /\ UNCHANGED <<via, other_vars>>

\* The values of max_wait_time and check_interval callers pass.
WaitTimes == {0, 7, MaxWaitLimit - 1}

CheckIntervals == {3, DefaultCheckInterval}

\* The values of max_retries of direct fetches.
RetryCounts == {RouteMaxRetries}

Next ==
    \/ \E q \in QueryIds : \E resp \in SendResponses(RefText(next_ref + 1)) :
          Submit(q, resp)
    \/ \E r \in KnownRefs : GetStatus(r)
    \/ \E r \in KnownRefs : \E m \in RetryCounts : GetBegin(r, m)
    \/ GetSend
    \/ \E resp \in GetResponses : GetReceive(resp)
    \/ \E r \in KnownRefs : \E mw \in WaitTimes : \E ci \in CheckIntervals :
          WaitBegin(r, mw, ci)
    \/ WaitFetch
    \/ WaitTimeout
    \/ Tick
    \/ WaitWake

Spec == Init /\ [][Next]_vars

\* The steps of a call in progress: the event loop resumes the task when its
\* sleep is over or its request is answered, and time passes meanwhile.
CallStep ==
    \/ GetSend
    \/ \E resp \in GetResponses : GetReceive(resp)
    \/ WaitFetch
    \/ WaitTimeout
    \/ Tick
    \/ WaitWake

\* Spec, with every request answered in the end and every sleep ending.
SpecLive == Init /\ [][Next]_vars /\ WF_vars(CallStep)

\* Waits long enough for two progress signals.
LongWaitTimes == {65}

\* Waits alone, for a reference the registry does not know.
NextProgress ==
    \/ \E mw \in LongWaitTimes : \E ci \in CheckIntervals :
          WaitBegin(UnknownRef, mw, ci)
    \/ WaitFetch
    \/ \E resp \in GetResponses : GetReceive(resp)
    \/ WaitTimeout
    \/ Tick
    \/ WaitWake

SpecProgress == Init /\ [][NextProgress]_vars

\* A wait long enough for nineteen polls at the default interval.
BackoffWaitTimes == {245}

\* One second of asyncio.sleep(wait_time) passes (line 439).
SleepTick == w.pc = "sleep" /\ Tick

\* Waits with the default check_interval, for a reference the registry does
\* not know, against a remote that answers every request at once.
NextBackoff ==
    \/ \E mw \in BackoffWaitTimes : WaitBegin(UnknownRef, mw, DefaultCheckInterval)
    \/ WaitFetch
    \/ \E resp \in GetResponses : GetReceive(resp)
    \/ WaitTimeout
    \/ SleepTick
    \/ WaitWake

SpecBackoff == Init /\ [][NextBackoff]_vars

\* ---------------------------------------------------------------- routes
\* max_retries' default of get_flex_query_data (line 112).
DefaultMaxRetries == 8

\* raise HTTPException(status_code, detail)
HTTPException(status_code, detail) ==
    [status_code |-> status_code, detail |-> detail]

\* A handler that returns its value: FastAPI answers 200 with it.
Ok(value) == [status_code |-> 200, body |-> value]

NoAnswer == [status_code |-> 0]

\* The except clause of the broker data route (broker.py lines 327-343).
DataRouteExcept(reference_code, error_msg) ==
    IF Contains(Lower(error_msg), <<"statement", "not", "yet", "available">>)
    THEN HTTPException(202,
           <<"Flex", "query", "is", "still", "being", "generated", ".", "Please",
             "try", "again", "in", "a", "few", "moments", ".", "Reference",
             "code", ":">> \o reference_code)
    ELSE IF Contains(Lower(error_msg), <<"timeout">>)
    THEN HTTPException(408,
           <<"Flex", "query", "timed", "out", ".", "You", "can", "retry", "with",
             "reference", "code", ":">> \o reference_code)
    ELSE HTTPException(400, error_msg)

\* No route handler is between its call of the service and its answer, and
\* another request may come in.
RouteIdle == via.pc # "called" /\ calls < MaxRouteCalls

\* GET /flex-query/{reference_code}/data of the broker routes, up to its call
\* of the service (broker.py lines 304-322).
DataRoute(reference_code, wait_if_not_ready, max_wait_time) ==
    /\ RouteIdle
    /\ IF wait_if_not_ready
       THEN StartWait(reference_code, max_wait_time, DefaultCheckInterval)
       ELSE StartGet(reference_code, DefaultMaxRetries)
    /\ via' = [route |-> "data", pc |-> "called", reference_code |-> reference_code,
               wait_if_not_ready |-> wait_if_not_ready, answer |-> NoAnswer]
    /\ UNCHANGED other_vars

\* The data route after its call of the service has returned or raised
\* (broker.py lines 324-343).
DataRouteReturn ==
    /\ via.route = "data"
    /\ via.pc = "called"
    /\ pc = "idle"
    /\ via' = [via EXCEPT !.pc = "answered",
                          !.answer = IF ret.kind = "return" THEN Ok(ret.value)
                                     ELSE DataRouteExcept(via.reference_code, ret.text)]
    /\ UNCHANGED <<registry, next_ref, calls, pc, ret, reg_before, rsp, r_count, g, w>>
    /\ UNCHANGED other_vars

\* A job parameter that is not set: None or the empty string, both falsy.
Unset == ""

\* POST /flex-query/execute of the broker routes (broker.py lines 288-300):
\* the request body goes to the service as it is. A remote accepts no
\* submission without a query id and a token.
BrokerExecuteRoute(query_id, token, resp) ==
    /\ RouteIdle
    /\ Accepted(resp) => (query_id # Unset /\ token # Unset)
    /\ SubmitCall(query_id, resp)
    /\ via' = [route |-> "broker_execute", pc |-> "answered", query_id |-> query_id,
               token |-> token,
               answer |-> Ok(ExecuteFlexQuery(registry, query_id, resp).value)]
    /\ UNCHANGED other_vars

\* QUERY_MAPPINGS.keys() (flex.py lines 19-23)
QueryTypes == {"trades", "positions", "cash"}

\* POST /api/flex/execute/{query_type} (flex.py lines 26-62), the settings
\* holding query_id for the type and token.
FlexExecuteRoute(query_type, query_id, token, resp) ==
    /\ RouteIdle
    /\ Accepted(resp) => (query_id # Unset /\ token # Unset)
    /\ IF query_type \notin QueryTypes \/ query_id = Unset \/ token = Unset
       THEN /\ BeginCall
            /\ via' = [route |-> "flex_execute", pc |-> "answered",
                       query_id |-> query_id, token |-> token,
                       answer |-> HTTPException(400,
                          IF query_type \notin QueryTypes
                          THEN <<"Invalid", "query", "type">>
                          ELSE IF query_id = Unset
                          THEN <<"Query", "ID", "for", query_type, "not", "configured">>
                          ELSE <<"IBKR", "Flex", "token", "not", "configured">>)]
            /\ ret' = [op |-> "none"]
            /\ rsp' = NoResponse
            /\ r_count' = NoCount
            /\ g' = GOff
            /\ w' = WOff
            /\ UNCHANGED <<registry, next_ref, pc>>
       ELSE /\ SubmitCall(query_id, resp)
            /\ via' = [route |-> "flex_execute", pc |-> "answered",
                       query_id |-> query_id, token |-> token,
                       answer |-> Ok(ExecuteFlexQuery(registry, query_id, resp).value)]
    /\ UNCHANGED other_vars

\* The job parameters a request or the settings may hold.
QueryIdParams == {Unset, "Q1"}

TokenParams == {Unset, "T1"}

\* The service driven through its routes.
NextRoute ==
    \/ \E q \in QueryIdParams : \E t \in TokenParams :
          \E resp \in SendResponses(RefText(next_ref + 1)) :
             BrokerExecuteRoute(q, t, resp)
    \/ \E qt \in {"trades", "bogus"} : \E q \in QueryIdParams : \E t \in TokenParams :
          \E resp \in SendResponses(RefText(next_ref + 1)) :
             FlexExecuteRoute(qt, q, t, resp)
    \/ \E r \in KnownRefs : \E wait \in BOOLEAN : \E mw \in WaitTimes :
          DataRoute(r, wait, mw)
    \/ DataRouteReturn
    \/ GetSend
    \/ \E resp \in GetResponses : GetReceive(resp)
    \/ WaitFetch
    \/ WaitTimeout
    \/ Tick
    \/ WaitWake

SpecRoute == Init /\ [][NextRoute]_vars

\* ------------------------------------------------------- parsing, alone
\* Longest document (in elements with a tag of interest) that is parsed.
MaxElems == 3

\* The elements documents are made of: three trades (the third with a
\* quantity that is no number), one element of each other container type, an
\* element of no known type, and a statement header.
ElemPool ==
    { Elem("Trade", [id |-> "t1", quantity |-> "10", price |-> "1.5",
                     realizedPL |-> "100", tradeDate |-> "20240102"]),
      Elem("Trade", [id |-> "t2", quantity |-> "-40", realizedPL |-> "-40"]),
      Elem("Trade", [id |-> "t3", quantity |-> "abc", realizedPL |-> "100"]),
      Elem("CashTransaction", [id |-> "c1", amount |-> "100", dateTime |-> "20240102"]),
      Elem("OpenPosition", [id |-> "p1", position |-> "10", markPrice |-> "1.5"]),
      Elem("ChangeInDividendAccrual", [id |-> "d1", totalCash |-> "10",
                                       date |-> "20240102"]),
      Elem("Order", [id |-> "o1"]),
      Elem("FlexStatement", [id |-> "s1"]) }

\* The documents: the elements of a root in document order.
Documents == UNION { [1..n -> ElemPool] : n \in 0..MaxElems }

\* _parse_flex_query_xml(root, reference_code) on a document.
ParseDocument(elems) ==
    /\ px.pc = "off"
    /\ px' = [pc |-> "done", elems |-> elems,
              out |-> ParseFlexQueryXml(XmlRoot(None, None, None, None, elems),
                                        UnknownRef)]
    /\ UNCHANGED <<service_vars, mx, hm, monitor_vars>>

NextParse == \E elems \in Documents : ParseDocument(elems)

SpecParse == Init /\ [][NextParse]_vars

\* --------------------------------------- calculate_performance_metrics
\* Longest list of trade records the metrics are computed of.
MaxTrades == 3

Abs(x) == IF x < 0 THEN -x ELSE x

RECURSIVE GCD(_, _)
GCD(a, b) == IF b = 0 THEN a ELSE GCD(b, a % b)

\* The float n / d (d > 0), as the fraction in lowest terms.
Quot(n, d) ==
    IF n = 0 THEN [n |-> 0, d |-> 1]
    ELSE [n |-> n \div GCD(Abs(n), d), d |-> d \div GCD(Abs(n), d)]

\* A float that is a whole number of hundredths or units, as a fraction.
Zero == Quot(0, 1)

\* float('inf')
Inf == [n |-> 1, d |-> 0]

\* a <= b of two finite fractions
QuotLeq(a, b) == a.n * b.d <= b.n * a.d

\* max(a, b) of Python: b only when it is greater than a.
QuotMax(a, b) == IF QuotLeq(b, a) THEN a ELSE b

\* float(trade.get(key, 0)), in hundredths
Field(trade, key) == IF key \in DOMAIN trade THEN trade[key] ELSE 0

\* sum(float(t.get(key, 0)) for t in trades)
RECURSIVE SumField(_, _)
SumField(trades, key) ==
    IF trades = <<>> THEN 0
    ELSE Field(Head(trades), key) + SumField(Tail(trades), key)

\* Winners that also count the trades with no profit and no loss.
MutWinningTradesWithZero(trades) ==
    SelectSeq(trades, LAMBDA t : Field(t, "realized_pnl") >= 0)

\* [t for t in trade_records if float(t.get('realized_pnl', 0)) > 0]
WinningTrades(trades) == SelectSeq(trades, LAMBDA t : Field(t, "realized_pnl") > 0)

\* [t for t in trade_records if float(t.get('realized_pnl', 0)) < 0]
LosingTrades(trades) == SelectSeq(trades, LAMBDA t : Field(t, "realized_pnl") < 0)

\* x.get('trade_date', ''): dates are numbered in their order as strings, and
\* the empty string comes before them all.
DateKey(trade) == IF "trade_date" \in DOMAIN trade THEN trade.trade_date ELSE 0

\* The list with t put after the last record whose key is not greater.
RECURSIVE InsertByDate(_, _)
InsertByDate(sorted, t) ==
    IF sorted = <<>> THEN <<t>>
    ELSE IF DateKey(sorted[Len(sorted)]) <= DateKey(t) THEN Append(sorted, t)
    ELSE Append(InsertByDate(SubSeq(sorted, 1, Len(sorted) - 1), t),
                sorted[Len(sorted)])

\* A replay of the records in the order they were passed in.
MutSortedByDateAsPassed(trades) == trades

\* sorted(trade_records, key=lambda x: x.get('trade_date', '')): stable
RECURSIVE SortedByDate(_)
SortedByDate(trades) ==
    IF trades = <<>> THEN <<>>
    ELSE InsertByDate(SortedByDate(SubSeq(trades, 1, Len(trades) - 1)),
                      trades[Len(trades)])

\* The drawdown loop (lines 357-366) over the sorted records still to come.
RECURSIVE DrawdownLoop(_, _, _, _)
DrawdownLoop(trades, running_pnl, peak, max_drawdown) ==
    IF trades = <<>> THEN max_drawdown
    ELSE LET running == running_pnl + Field(Head(trades), "realized_pnl")
             newpeak == IF running > peak THEN running ELSE peak
             drawdown == IF newpeak > 0 THEN Quot(newpeak - running, newpeak)
                         ELSE Zero
         IN  DrawdownLoop(Tail(trades), running, newpeak,
                          QuotMax(max_drawdown, drawdown))

Max(a, b) == IF a >= b THEN a ELSE b

\* max(values, default=0) / min(values, default=0) of one field
RECURSIVE Largest(_, _)
Largest(trades, key) ==
    IF trades = <<>> THEN 0
    ELSE IF Len(trades) = 1 THEN Field(trades[1], key)
    ELSE Max(Field(Head(trades), key), Largest(Tail(trades), key))

RECURSIVE Smallest(_, _)
Smallest(trades, key) ==
    IF trades = <<>> THEN 0
    ELSE IF Len(trades) = 1 THEN Field(trades[1], key)
    ELSE Min(Field(Head(trades), key), Smallest(Tail(trades), key))

\* Metrics of no trades computed by the general formulas' fallbacks.
MutEmptyMetricsByFormula(start_date, end_date) ==
    [total_realized_pnl |-> 0, total_unrealized_pnl |-> 0,
     total_commissions |-> 0, total_fees |-> 0, net_pnl |-> 0,
     win_rate |-> Zero, profit_factor |-> Inf, sharpe_ratio |-> None,
     max_drawdown |-> Zero, total_trades |-> 0, winning_trades |-> 0,
     losing_trades |-> 0, avg_winning_trade |-> Zero, avg_losing_trade |-> Zero,
     largest_win |-> 0, largest_loss |-> 0,
     period_start |-> start_date, period_end |-> end_date]

\* The PerformanceMetrics of no trades (lines 311-330). Sums of money are in
\* hundredths, quotients are fractions, sharpe_ratio keeps its default None.
EmptyMetrics(start_date, end_date) ==
    [total_realized_pnl |-> 0, total_unrealized_pnl |-> 0,
     total_commissions |-> 0, total_fees |-> 0, net_pnl |-> 0,
     win_rate |-> Zero, profit_factor |-> Zero, sharpe_ratio |-> None,
     max_drawdown |-> Zero, total_trades |-> 0, winning_trades |-> 0,
     losing_trades |-> 0, avg_winning_trade |-> Zero, avg_losing_trade |-> Zero,
     largest_win |-> 0, largest_loss |-> 0,
     period_start |-> start_date, period_end |-> end_date]

\* calculate_performance_metrics(trade_records, start_date, end_date)
CalculatePerformanceMetrics(trade_records, start_date, end_date) ==
    IF trade_records = <<>> THEN EmptyMetrics(start_date, end_date)
    ELSE LET total_realized_pnl == SumField(trade_records, "realized_pnl")
             total_commissions == SumField(trade_records, "commission")
             total_fees == SumField(trade_records, "fees")
             winning_trades == WinningTrades(trade_records)
             losing_trades == LosingTrades(trade_records)
             gross_profit == SumField(winning_trades, "realized_pnl")
             gross_loss == Abs(SumField(losing_trades, "realized_pnl"))
         IN  [total_realized_pnl |-> total_realized_pnl,
              total_unrealized_pnl |-> 0,
              total_commissions |-> total_commissions,
              total_fees |-> total_fees,
              net_pnl |-> total_realized_pnl - total_commissions - total_fees,
              win_rate |-> Quot(Len(winning_trades), Len(trade_records)),
              profit_factor |-> IF gross_loss > 0 THEN Quot(gross_profit, gross_loss)
                                ELSE Inf,
              sharpe_ratio |-> None,
              max_drawdown |-> DrawdownLoop(SortedByDate(trade_records), 0, 0, Zero),
              total_trades |-> Len(trade_records),
              winning_trades |-> Len(winning_trades),
              losing_trades |-> Len(losing_trades),
              avg_winning_trade |-> IF winning_trades # <<>>
                                    THEN Quot(gross_profit, Len(winning_trades))
                                    ELSE Zero,
              avg_losing_trade |-> IF losing_trades # <<>>
                                   THEN Quot(-gross_loss, Len(losing_trades))
                                   ELSE Zero,
              largest_win |-> Largest(winning_trades, "realized_pnl"),
              largest_loss |-> Smallest(losing_trades, "realized_pnl"),
              period_start |-> start_date, period_end |-> end_date]

\* The trade records the metrics are computed of: a win of 100, losses of 40
\* (one with a commission), a trade with no profit and no loss (with a fee),
\* a record without realized_pnl, and a win without trade_date.
TradePool ==
    { [realized_pnl |-> 10000, trade_date |-> 1],
      [realized_pnl |-> -4000, trade_date |-> 2],
      [realized_pnl |-> -4000, trade_date |-> 1, commission |-> 150],
      [realized_pnl |-> 0, trade_date |-> 2, fees |-> 100],
      [trade_date |-> 1, commission |-> 150],
      [realized_pnl |-> 10000] }

TradeLists == UNION { [1..n -> TradePool] : n \in 0..MaxTrades }

\* The period's start and end dates a caller passes.
StartDates == {"2024-01-01"}

EndDates == {"2024-03-31", "2024-06-30"}

\* A call of calculate_performance_metrics.
CalculateMetrics(trade_records, start_date, end_date) ==
    /\ mx.pc = "off"
    /\ mx' = [pc |-> "done", trade_records |-> trade_records,
              start_date |-> start_date, end_date |-> end_date,
              out |-> CalculatePerformanceMetrics(trade_records, start_date,
                                                  end_date)]
    /\ UNCHANGED <<service_vars, px, hm, monitor_vars>>

NextMetrics ==
    \E trade_records \in TradeLists : \E start_date \in StartDates :
        \E end_date \in EndDates :
            CalculateMetrics(trade_records, start_date, end_date)

SpecMetrics == Init /\ [][NextMetrics]_vars

\* ------------------------------------------------ connection health
\* ConnectionHealth
HEALTHY == "healthy"
DEGRADED == "degraded"
UNHEALTHY == "unhealthy"
UNKNOWN == "unknown"

\* check_data.get(key, default)
DictGet(check_data, key, default) ==
    IF key \in DOMAIN check_data THEN check_data[key] ELSE default

\* The warning conditions of one successful check (lines 233-237): 1 or 0.
WarningOf(check_name, check_data) ==
    IF check_name = "market_data" /\ DictGet(check_data, "data_quality", "") = "poor"
    THEN 1
    ELSE IF check_name = "account_access" /\ DictGet(check_data, "duration_ms", 0) > 5000
    THEN 1
    ELSE 0

\* The sum of f over the names in S.
RECURSIVE SumOver(_, _)
SumOver(S, f) ==
    IF S = {} THEN 0
    ELSE LET x == CHOOSE y \in S : TRUE IN f[x] + SumOver(S \ {x}, f)

\* A classification that does not look at the warning conditions.
MutDetermineHealthStatusNoWarnings(health_details) ==
    LET total_checks == Cardinality(DOMAIN health_details)
        successful_checks ==
            Cardinality({c \in DOMAIN health_details :
                            DictGet(health_details[c], "success", FALSE)})
    IN  IF successful_checks = total_checks THEN HEALTHY
        ELSE IF 10 * successful_checks >= 7 * total_checks THEN DEGRADED
        ELSE UNHEALTHY

\* _determine_health_status(health_details); successful_checks >=
\* total_checks * 0.7 in tenths.
DetermineHealthStatus(health_details) ==
    LET total_checks == Cardinality(DOMAIN health_details)
        successes == {c \in DOMAIN health_details :
                         DictGet(health_details[c], "success", FALSE)}
        successful_checks == Cardinality(successes)
        warning_conditions ==
            SumOver(successes,
                    [c \in successes |-> WarningOf(c, health_details[c])])
    IN  IF successful_checks = total_checks /\ warning_conditions = 0 THEN HEALTHY
        ELSE IF 10 * successful_checks >= 7 * total_checks THEN DEGRADED
        ELSE UNHEALTHY

\* What the three calls of the broker service may do in a detailed check: raise
\* (ok = FALSE, with the error text) or return after duration_ms.
AccountOutcomes ==
    { [ok |-> FALSE, error |-> x] : x \in {"Not connected", "Request timed out"} }
    \cup { [ok |-> TRUE, duration_ms |-> d, account_id |-> "U1"] :
              d \in {120, 5000, 5001, 9000} }

MarketOutcomes ==
    { [ok |-> FALSE, error |-> x] : x \in {"Not connected", "No market data"} }
    \cup { [ok |-> TRUE, duration_ms |-> d, bid |-> b[1], ask |-> b[2]] :
              d \in {80, 6000}, b \in {<<18950, 18955>>, <<0, 18955>>, <<0, 0>>} }

PositionsOutcomes ==
    { [ok |-> FALSE, error |-> x] : x \in {"Not connected"} }
    \cup { [ok |-> TRUE, duration_ms |-> 60, positions |-> n] : n \in {0, 2} }

\* _detailed_health_check(broker_id), the three calls ending as given.
DetailedHealthCheck(account, market, positions) ==
    [c \in {"account_access", "market_data", "positions_access"} |->
        CASE c = "account_access" ->
               IF account.ok
               THEN [success |-> TRUE, duration_ms |-> account.duration_ms,
                     account_id |-> account.account_id]
               ELSE [success |-> FALSE, error |-> account.error]
          [] c = "market_data" ->
               IF market.ok
               THEN [success |-> TRUE, duration_ms |-> market.duration_ms,
                     symbol |-> "AAPL",
                     data_quality |-> IF market.bid > 0 /\ market.ask > 0
                                      THEN "good" ELSE "poor"]
               ELSE [success |-> FALSE, error |-> market.error]
          [] c = "positions_access" ->
               IF positions.ok
               THEN [success |-> TRUE, duration_ms |-> positions.duration_ms,
                     position_count |-> positions.positions]
               ELSE [success |-> FALSE, error |-> positions.error]]

\* check_broker_health of a connected broker, up to its classification
\* (lines 107-110).
ClassifyConnected(account, market, positions) ==
    /\ hm.pc = "off"
    /\ hm' = [pc |-> "done", account |-> account, market |-> market,
              positions |-> positions,
              health_details |-> DetailedHealthCheck(account, market, positions),
              health_status |-> DetermineHealthStatus(
                                  DetailedHealthCheck(account, market, positions))]
    /\ UNCHANGED <<service_vars, px, mx, monitor_vars>>

NextHealth ==
    \E account \in AccountOutcomes : \E market \in MarketOutcomes :
        \E positions \in PositionsOutcomes :
            ClassifyConnected(account, market, positions)

SpecHealth == Init /\ [][NextHealth]_vars

\* ------------------------------------------- connection health monitor
\* self.max_recovery_attempts (line 48).
MaxRecoveryAttempts == 3

\* get_supported_brokers(): the keys of the adapters, in the order
\* _initialize_adapters registers them (broker_service.py lines 43, 54, 196).
SupportedBrokers == <<"ibkr", "mt5">>

BrokerIds == {SupportedBrokers[i] : i \in 1..Len(SupportedBrokers)}

\* error=None of a HealthCheckResult or of a BrokerConnection.
NoError == "<None>"

\* What adapter.get_connection_status() may do: return a BrokerConnection with
\* one of the four statuses (models.py lines 17-22), or raise.
AdapterOutcomes ==
    { [raised |-> FALSE, status |-> s, error |-> NoError] :
         s \in {"connected", "disconnected", "connecting"} }
    \cup { [raised |-> FALSE, status |-> "error", error |-> "Terminal info failed"] }
    \cup { [raised |-> TRUE, status |-> "", error |-> "adapter failure"] }

\* A status call that lets the adapter's exception through.
MutGetBrokerStatusNoCatch(outcome) == outcome

\* BrokerService.get_broker_status (broker_service.py lines 97-112): an
\* exception of the adapter becomes a BrokerConnection with status "error".
GetBrokerStatus(outcome) ==
    IF outcome.raised
    THEN [raised |-> FALSE, status |-> "error", error |-> outcome.error]
    ELSE outcome

\* The three sub-checks of a monitored target, the account access ending as
\* account and the other two succeeding with good data.
ProbeWith(account) ==
    [account |-> account,
     market |-> [ok |-> TRUE, duration_ms |-> 80, bid |-> 18950, ask |-> 18955],
     positions |-> [ok |-> TRUE, duration_ms |-> 60, positions |-> 0]]

\* The outcomes of the three sub-checks a monitored target gives: all good;
\* all succeeding with a slow account access; the account access failing.
MonitorProbes ==
    { ProbeWith(a) :
         a \in { [ok |-> TRUE, duration_ms |-> 120, account_id |-> "U1"],
                 [ok |-> TRUE, duration_ms |-> 5001, account_id |-> "U1"],
                 [ok |-> FALSE, error |-> "Not connected"] } }

\* test_symbol (line 189).
TestSymbol(broker_id) == IF broker_id = "ibkr" THEN "AAPL" ELSE "EURUSD"

\* _detailed_health_check(broker_id) (lines 168-220).
DetailedHealthCheckOf(broker_id, probe) ==
    LET details == DetailedHealthCheck(probe.account, probe.market, probe.positions)
    IN  [c \in DOMAIN details |->
            IF c = "market_data" /\ details[c].success
            THEN [details[c] EXCEPT !.symbol = TestSymbol(broker_id)]
            ELSE details[c]]

\* HealthCheckResult(broker_id, health, last_check, error, details)
HealthCheckResult(broker_id, health, last_check, error, details) ==
    [broker_id |-> broker_id, health |-> health, last_check |-> last_check,
     error |-> error, details |-> details]

\* d[key] = value
DictSet(d, key, value) ==
    [k \in DOMAIN d \cup {key} |-> IF k = key THEN value ELSE d[k]]

\* d.pop(key, None)
DictPop(d, key) == [k \in DOMAIN d \ {key} |-> d[k]]

\* _attempt_recovery(broker_id) (lines 247-257): not implemented, False.
AttemptRecovery(broker_id) == FALSE

\* A budget test that allows one attempt more.
MutRecoveryBudgetLeftInclusive(recovery_count) ==
    recovery_count <= MaxRecoveryAttempts

\* recovery_count < self.max_recovery_attempts (line 127).
RecoveryBudgetLeft(recovery_count) == recovery_count < MaxRecoveryAttempts

\* A connected branch that leaves the recovery counter alone.
MutConnectedCheckNoReset(attempts, broker_id, start_time, probe) ==
    LET health_details == DetailedHealthCheckOf(broker_id, probe)
        health_status == DetermineHealthStatus(health_details)
    IN  [result |-> HealthCheckResult(broker_id, health_status, start_time,
                                      NoError, health_details),
         recovery_attempts |-> attempts,
         attempted |-> FALSE]

\* check_broker_health, the branch of a connected broker (lines 108-122).
ConnectedCheck(attempts, broker_id, start_time, probe) ==
    LET health_details == DetailedHealthCheckOf(broker_id, probe)
        health_status == DetermineHealthStatus(health_details)
    IN  [result |-> HealthCheckResult(broker_id, health_status, start_time,
                                      NoError, health_details),
         recovery_attempts |-> IF health_status = HEALTHY
                               THEN DictPop(attempts, broker_id) ELSE attempts,
         attempted |-> FALSE]

\* A disconnected branch that reports Degraded while it still tries to recover.
MutDisconnectedCheckDegradedWhileTrying(attempts, broker_id, start_time) ==
    LET recovery_count == DictGet(attempts, broker_id, 0)
        tried == RecoveryBudgetLeft(recovery_count)
        after == IF tried THEN DictSet(attempts, broker_id, recovery_count + 1)
                 ELSE attempts
    IN  [result |-> HealthCheckResult(
                      broker_id, IF tried THEN DEGRADED ELSE UNHEALTHY, start_time,
                      "Broker disconnected",
                      [recovery_attempts |-> DictGet(after, broker_id, 0)]),
         recovery_attempts |-> after,
         attempted |-> tried]

\* A disconnected branch that writes the counter from a value read before
\* other checks ran: it counts on from 0 whatever the counter holds.
MutDisconnectedCheckStaleCount(attempts, broker_id, start_time) ==
    LET recovery_count == DictGet(attempts, broker_id, 0)
        tried == RecoveryBudgetLeft(recovery_count)
        after == IF tried THEN DictSet(attempts, broker_id, 1) ELSE attempts
    IN  [result |-> HealthCheckResult(
                      broker_id, UNHEALTHY, start_time, "Broker disconnected",
                      [recovery_attempts |-> DictGet(after, broker_id, 0)]),
         recovery_attempts |-> after,
         attempted |-> tried]

\* check_broker_health, the branch of a disconnected broker (lines 124-149).
DisconnectedCheck(attempts, broker_id, start_time) ==
    LET recovery_count == DictGet(attempts, broker_id, 0)
        tried == RecoveryBudgetLeft(recovery_count)
    IN  IF tried /\ AttemptRecovery(broker_id)
        THEN [result |-> HealthCheckResult(broker_id, HEALTHY, start_time, NoError,
                                           [recovery_successful |-> TRUE]),
              recovery_attempts |-> DictPop(attempts, broker_id),
              attempted |-> TRUE]
        ELSE LET after == IF tried
                          THEN DictSet(attempts, broker_id, recovery_count + 1)
                          ELSE attempts
             IN  [result |-> HealthCheckResult(
                               broker_id, UNHEALTHY, start_time,
                               "Broker disconnected",
                               [recovery_attempts |-> DictGet(after, broker_id, 0)]),
                  recovery_attempts |-> after,
                  attempted |-> tried]

\* check_broker_health(broker_id) (lines 100-166), started at start_time, the
\* adapter's status call ending as outcome and the sub-checks as probe: the
\* result, the recovery counters afterwards, and whether a recovery was tried.
CheckBrokerHealth(attempts, broker_id, start_time, outcome, probe) ==
    LET connection == GetBrokerStatus(outcome)
    IN  IF connection.raised
        THEN [result |-> HealthCheckResult(broker_id, UNKNOWN, start_time,
                                           connection.error, EmptyDict),
              recovery_attempts |-> attempts,
              attempted |-> FALSE]
        ELSE IF connection.status = "connected"
        THEN ConnectedCheck(attempts, broker_id, start_time, probe)
        ELSE IF connection.status = "disconnected"
        THEN DisconnectedCheck(attempts, broker_id, start_time)
        ELSE [result |-> HealthCheckResult(
                           broker_id, UNHEALTHY, start_time,
                           IF connection.error = NoError THEN "Connection error"
                           ELSE connection.error,
                           EmptyDict),
              recovery_attempts |-> attempts,
              attempted |-> FALSE]

\* Whether the sub-checks are made: the status call returned "connected".
Probes(outcome) ==
    IF ~GetBrokerStatus(outcome).raised /\ GetBrokerStatus(outcome).status = "connected"
    THEN MonitorProbes ELSE {NoProbe}

\* old_health is None or old_health.health != result.health (lines 88-89).
HealthChanged(checks, broker_id, result) ==
    IF broker_id \in DOMAIN checks
    THEN checks[broker_id].health # result.health
    ELSE TRUE

\* A notification loop without the try: the first callback that raises ends it
\* and its exception escapes.
MutNotifyNoCatch(cbs, broker_id, health, raises) ==
    LET bad == {i \in 1..Len(cbs) : cbs[i] \in raises}
        last == IF bad = {} THEN Len(cbs)
                ELSE CHOOSE i \in bad : \A j \in bad : i <= j
    IN  [invoked |-> [i \in 1..last |->
                         [callback |-> cbs[i], broker_id |-> broker_id,
                          health |-> health, raised |-> cbs[i] \in raises]],
         escaped |-> bad # {}]

\* The notification loop (lines 90-94), the callbacks in raises raising: the
\* invocations made, and whether an exception escapes.
Notify(cbs, broker_id, health, raises) ==
    [invoked |-> [i \in 1..Len(cbs) |->
                     [callback |-> cbs[i], broker_id |-> broker_id,
                      health |-> health, raised |-> cbs[i] \in raises]],
     escaped |-> FALSE]

\* A loop that never looks at the flag.
MutKeepsRunningAlways(flag) == TRUE

\* while self.monitoring (line 66).
KeepsRunning(flag) == flag

\* The broker a task's check in flight is about.
CurrentBroker(tk) ==
    IF tk.broker_id = NoBroker THEN SupportedBrokers[tk.i] ELSE tk.broker_id

\* n more checks may start.
ChecksLeft(n) == clock + n <= MaxChecks

\* add_health_callback(callback): the n-th subscriber is callback n.
AddHealthCallback ==
    /\ Len(callbacks) < MaxCallbacks
    /\ callbacks' = Append(callbacks, Len(callbacks) + 1)
    /\ UNCHANGED <<monitoring, health_checks, recovery_attempts, clock, task, done>>
    /\ UNCHANGED <<service_vars, px, mx, hm>>

\* A tick begins: check_all_brokers_health calls check_broker_health of the
\* first broker, which reads the clock and waits for the status call.
BeginTick(t) ==
    /\ ChecksLeft(Len(SupportedBrokers))
    /\ task' = [task EXCEPT ![t] = [@ EXCEPT !.pc = "check", !.broker_id = NoBroker,
                                             !.i = 1, !.start_time = clock + 1]]
    /\ clock' = clock + 1

\* start_monitoring(check_interval) while not monitoring (lines 55-68), up to
\* the first suspension of its first tick.
StartMonitoring(l) ==
    /\ task[l].pc = "off"
    /\ ~monitoring
    /\ monitoring' = TRUE
    /\ BeginTick(l)
    /\ UNCHANGED <<callbacks, health_checks, recovery_attempts, done>>
    /\ UNCHANGED <<service_vars, px, mx, hm>>

\* stop_monitoring() (lines 74-77).
StopMonitoring ==
    /\ monitoring
    /\ monitoring' = FALSE
    /\ UNCHANGED <<callbacks, health_checks, recovery_attempts, clock, task, done>>
    /\ UNCHANGED <<service_vars, px, mx, hm>>

\* asyncio.sleep(check_interval) of the loop returns (lines 66-72): the loop
\* ends, or its next tick begins.
LoopWake(l) ==
    /\ task[l].pc = "sleep"
    /\ IF KeepsRunning(monitoring)
       THEN BeginTick(l)
       ELSE /\ task' = [task EXCEPT ![l] = [@ EXCEPT !.pc = "off"]]
            /\ clock' = clock
    /\ UNCHANGED <<monitoring, callbacks, health_checks, recovery_attempts, done>>
    /\ UNCHANGED <<service_vars, px, mx, hm>>

\* force_health_check(broker_id) is called (lines 307-314).
ForceHealthCheck(f, broker_id) ==
    /\ task[f].pc = "off"
    /\ IF broker_id = NoBroker
       THEN BeginTick(f)
       ELSE /\ ChecksLeft(1)
            /\ task' = [task EXCEPT ![f] = [@ EXCEPT !.pc = "check",
                                                     !.broker_id = broker_id,
                                                     !.i = 0,
                                                     !.start_time = clock + 1]]
            /\ clock' = clock + 1
    /\ UNCHANGED <<monitoring, callbacks, health_checks, recovery_attempts, done>>
    /\ UNCHANGED <<service_vars, px, mx, hm>>

\* What a task does when check_all_brokers_health has ended: the loop sleeps
\* (lines 69, 72), a forced check returns.
AfterTick(t, tk) ==
    [tk EXCEPT !.pc = IF t \in LoopTasks THEN "sleep" ELSE "off"]

\* The check in flight of task t ends, the status call as outcome, the
\* sub-checks as probe and the callbacks in raises raising; the task runs on to
\* its next suspension.  A forced check of one target stores the result and
\* returns (lines 310-312); check_all_brokers_health notifies, stores and goes
\* on to the next broker (lines 83-98).
CheckFinish(t, outcome, probe, raises) ==
    /\ task[t].pc = "check"
    /\ probe \in Probes(outcome)
    /\ LET tk == task[t]
           broker_id == CurrentBroker(tk)
           single == tk.broker_id # NoBroker
       IN  \E out \in {CheckBrokerHealth(recovery_attempts, broker_id,
                                         tk.start_time, outcome, probe)} :
           LET changed == ~single /\ HealthChanged(health_checks, broker_id,
                                                   out.result)
               n == IF changed
                    THEN Notify(callbacks, broker_id, out.result.health, raises)
                    ELSE [invoked |-> <<>>, escaped |-> FALSE]
               more == ~single /\ ~n.escaped /\ tk.i < Len(SupportedBrokers)
           IN  /\ ~changed => raises = {}
               /\ recovery_attempts' = out.recovery_attempts
               /\ health_checks' = IF n.escaped THEN health_checks
                                   ELSE DictSet(health_checks, broker_id, out.result)
               /\ task' = [task EXCEPT ![t] =
                             IF single
                             THEN [tk EXCEPT
                                     !.pc = "off",
                                     !.last = [broker_id |-> broker_id,
                                               raised |-> outcome.raised,
                                               status |-> outcome.status,
                                               probe |-> probe,
                                               health |-> out.result.health,
                                               again |->
                                                 /\ tk.last.broker_id = broker_id
                                                 /\ tk.last.raised = outcome.raised
                                                 /\ tk.last.status = outcome.status
                                                 /\ tk.last.probe = probe,
                                               health_before |-> tk.last.health]]
                             ELSE IF more
                             THEN [tk EXCEPT !.i = @ + 1, !.start_time = clock + 1]
                             ELSE AfterTick(t, tk)]
               /\ clock' = IF more THEN clock + 1 ELSE clock
               /\ done' = [pc |-> "ended", task |-> t, broker_id |-> broker_id,
                           single |-> single, i |-> tk.i,
                           raised |-> outcome.raised, status |-> outcome.status,
                           before |-> recovery_attempts,
                           old |-> IF broker_id \in DOMAIN health_checks
                                   THEN health_checks[broker_id].health
                                   ELSE "none",
                           health |-> out.result.health,
                           attempted |-> out.attempted,
                           subscribers |-> callbacks, invoked |-> n.invoked,
                           escaped |-> n.escaped]
    /\ UNCHANGED <<monitoring, callbacks>>
    /\ UNCHANGED <<service_vars, px, mx, hm>>

\* The callbacks that may raise in one notification.
RaisingSets == SUBSET {i \in 1..MaxCallbacks : i <= Len(callbacks)}

\* What a check may be answered: the adapter's status and, of a connected
\* broker, the sub-checks' outcomes.
Answers == {<<outcome, probe>> : outcome \in AdapterOutcomes,
                                 probe \in MonitorProbes \cup {NoProbe}}

\* The answers of a target that is connected and well, or disconnected.
PlainAnswers ==
    { <<[raised |-> FALSE, status |-> "connected", error |-> NoError],
        ProbeWith([ok |-> TRUE, duration_ms |-> 120, account_id |-> "U1"])>>,
      <<[raised |-> FALSE, status |-> "disconnected", error |-> NoError],
        NoProbe>> }

\* The loop of a monitor that is never started again while its loop runs.
FirstLoop == {<<"loop", 1>>}

\* The monitor with its subscribers, one loop and forced checks, the targets
\* connected and well or disconnected.
NextMonitor ==
    \/ AddHealthCallback
    \/ \E l \in FirstLoop : StartMonitoring(l)
    \/ StopMonitoring
    \/ \E f \in ForcedTasks : \E b \in BrokerIds \cup {NoBroker} :
          ForceHealthCheck(f, b)
    \/ \E t \in Tasks : \E a \in PlainAnswers : \E raises \in RaisingSets :
          CheckFinish(t, a[1], a[2], raises)
    \/ \E l \in LoopTasks : LoopWake(l)

SpecMonitor == Init /\ [][NextMonitor]_vars

\* The steps of loop l that the event loop takes: an answer arrives, a sleep
\* ends.
LoopStep(l) ==
    \/ \E a \in Answers : CheckFinish(l, a[1], a[2], {})
    \/ LoopWake(l)

\* The monitoring loop alone, started and stopped at any time, its checks
\* answered in every way.
NextLoop ==
    \/ \E l \in LoopTasks : StartMonitoring(l)
    \/ StopMonitoring
    \/ \E l \in LoopTasks : \E a \in Answers :
          CheckFinish(l, a[1], a[2], {})
    \/ \E l \in LoopTasks : LoopWake(l)

\* The loop with every status call and sub-check answered in the end and
\* every sleep ending.
SpecLoop ==
    Init /\ [][NextLoop]_vars /\ \A l \in LoopTasks : WF_vars(LoopStep(l))

\* Forced checks alone, answered in every way.
NextRecovery ==
    \/ \E f \in ForcedTasks : \E b \in BrokerIds \cup {NoBroker} :
          ForceHealthCheck(f, b)
    \/ \E t \in ForcedTasks : \E a \in Answers :
          CheckFinish(t, a[1], a[2], {})

SpecRecovery == Init /\ [][NextRecovery]_vars

\* A summary whose overall value is Healthy as soon as half the targets are.
MutOverallHealthHalfIsHealthy(healthy_count, total_count) ==
    IF 2 * healthy_count >= total_count THEN HEALTHY ELSE UNHEALTHY

\* overall of get_health_summary (lines 273-278); total_count * 0.5 is exact
\* in floats, so the test is 2 * healthy_count >= total_count.
OverallHealth(healthy_count, total_count) ==
    IF healthy_count = total_count THEN HEALTHY
    ELSE IF 2 * healthy_count >= total_count THEN DEGRADED
    ELSE UNHEALTHY

\* The lines of recommendations (lines 280-288), each as its kind and target;
\* the order of the lines, which is the order the registry was filled in, is
\* not kept.
Recommendations(checks, overall) ==
    { <<"unhealthy", b>> : b \in {x \in DOMAIN checks : checks[x].health = UNHEALTHY} }
    \cup { <<"degraded", b>> : b \in {x \in DOMAIN checks : checks[x].health = DEGRADED} }
    \cup (IF overall = HEALTHY THEN {<<"all healthy", NoBroker>>} ELSE {})

\* get_health_summary() (lines 259-301) of the registry checks; last_check is
\* 0 for None.
HealthSummary(checks) ==
    IF DOMAIN checks = {}
    THEN [overall |-> UNKNOWN, brokers |-> EmptyDict, last_check |-> 0,
          recommendations |-> {<<"run health check", NoBroker>>}]
    ELSE LET healthy_count ==
                 Cardinality({b \in DOMAIN checks : checks[b].health = HEALTHY})
             total_count == Cardinality(DOMAIN checks)
             overall == OverallHealth(healthy_count, total_count)
         IN  [overall |-> overall,
              brokers |-> [b \in DOMAIN checks |->
                             [health |-> checks[b].health,
                              last_check |-> checks[b].last_check,
                              error |-> checks[b].error]],
              last_check |-> CHOOSE t \in {checks[b].last_check : b \in DOMAIN checks} :
                                \A b \in DOMAIN checks : checks[b].last_check <= t,
              healthy_brokers |-> healthy_count,
              total_brokers |-> total_count,
              recommendations |-> Recommendations(checks, overall)]

\* get_health_summary() is called; hm keeps what it returned.
GetHealthSummary ==
    /\ hm' = [pc |-> "summary", out |-> HealthSummary(health_checks)]
    /\ UNCHANGED <<service_vars, px, mx, monitor_vars>>

\* Forced checks answered in every way, and summaries taken at any time.
NextSummary ==
    \/ \E f \in ForcedTasks : \E b \in BrokerIds \cup {NoBroker} :
          ForceHealthCheck(f, b)
    \/ \E t \in ForcedTasks : \E a \in Answers :
          CheckFinish(t, a[1], a[2], {})
    \/ GetHealthSummary

SpecSummary == Init /\ [][NextSummary]_vars

\* ================================================================ claims
\* C1: when the remote accepts a submission (transport OK, Status = Success, a
\* ReferenceCode present), execute_flex_query returns a handle with status
\* Running that carries that reference, and right after the call the registry
\* maps the reference to that same handle: get_query_status(reference)
\* returns it, with status Running.
C1_AcceptedSubmissionRegistered ==
    (ret.op = "submit" /\ Accepted(rsp)) =>
        /\ ret.kind = "return"
        /\ ret.value.status = RUNNING
        /\ ret.value.reference_code = rsp.root.ReferenceCode
        /\ GetQueryStatus(registry, rsp.root.ReferenceCode)
             = [kind |-> "handle", handle |-> ret.value]

\* An accepted submission has returned, and the registry holds its handle.
C1_Witness ==
    /\ ret.op = "submit"
    /\ Accepted(rsp)
    /\ ret.kind = "return"
    /\ ret.value.status = RUNNING
    /\ rsp.root.ReferenceCode \in DOMAIN registry

\* C2: when a submission fails for any reason (non-200 transport status,
\* missing or non-Success Status element, missing ReferenceCode, or a raised
\* exception), execute_flex_query returns a handle with status Failed and a
\* non-empty error_message, never status Running, raises nothing to the
\* caller, and leaves the job registry exactly as it was before the call.
C2_FailedSubmission ==
    (ret.op = "submit" /\ ~Accepted(rsp)) =>
        /\ ret.kind = "return"
        /\ ret.value.status = FAILED
        /\ ret.value.status # RUNNING
        /\ ret.value.error_message # None
        /\ ret.value.error_message # <<>>
        /\ registry = reg_before

\* C3: over every sequence of submissions (two with the same query_id
\* included), each accepted submission adds a registry entry under a
\* reference that was not a key before and leaves every earlier entry as it
\* was, so the registry has as many entries as submissions were accepted.
C3_NoReferenceReuse ==
    /\ Cardinality(DOMAIN registry) = next_ref
    /\ (ret.op = "submit" /\ Accepted(rsp)) =>
          /\ rsp.root.ReferenceCode \notin DOMAIN reg_before
          /\ \A k \in DOMAIN reg_before :
                k \in DOMAIN registry /\ registry[k] = reg_before[k]

\* Two submissions with the same query_id were accepted and have two entries.
C3_Witness ==
    /\ ret.op = "submit"
    /\ Accepted(rsp)
    /\ Cardinality(DOMAIN registry) = 2
    /\ \E a, b \in DOMAIN registry :
          a # b /\ registry[a].query_id = registry[b].query_id

\* The wait of the last call has ended (returned or raised).
WaitEnded == pc = "idle" /\ ret.op = "wait"

\* The reference of the wait has a registry entry.
WaitRefRegistered == w.reference_code \in DOMAIN registry

\* C4: a wait whose remote answers "not ready" k times and then the data
\* returns the parsed records after exactly k + 1 fetches (k = 3: 4 fetches),
\* each loop iteration issuing exactly one GetStatement request; and while the
\* answers are "not ready" the wait gives up only when max_wait_time has
\* elapsed.
C4_FetchesPerWait ==
    /\ (WaitEnded /\ ret.kind = "return") =>
          /\ r_count.gets = r_count.notready + 1
          /\ w.iters = r_count.gets
          /\ ResponseClass(rsp) = "data"
          /\ ret.value = ParseFlexQueryXml(rsp.root, w.reference_code).value
    /\ (pc = "wait" \/ WaitEnded) => w.iters = r_count.gets
    /\ (WaitEnded /\ ret.kind = "raise" /\ r_count.gets = r_count.notready) =>
          /\ ret.why = "timeout"
          /\ w.elapsed >= w.max_wait_time

\* Three "not ready" answers, then the data: returned after four fetches.
C4_Witness ==
    /\ WaitEnded
    /\ ret.kind = "return"
    /\ r_count.notready = 3
    /\ r_count.gets = 4
    /\ ret.value.total_records = 1

\* The response that ended the call is an error document of the remote that
\* is not a "not ready" one.
EndedByRemoteFatal == ResponseClass(rsp) = "remote_fatal"

\* C5: a fatal remote error (a non-zero ErrorCode whose message holds none of
\* the "not ready" phrases) ends the wait at once: no sleep and no fetch
\* follows it, so a fatal first response leaves the wait with one fetch made
\* and no sleep taken; the raised text contains the remote's ErrorMessage
\* verbatim, and the registry entry of the reference (if present) is Failed
\* with that raised text as its error_message.
C5_FatalEndsWait ==
    /\ pc = "wait" => r_count.fatal = 0
    /\ (WaitEnded /\ EndedByRemoteFatal) =>
          /\ ret.kind = "raise"
          /\ ret.why = "error"
          /\ r_count.fatal = 1
          /\ r_count.gets = r_count.notready + 1
          /\ w.pc = "done"
          /\ (r_count.gets = 1 => (w.attempt = 0 /\ w.wake = 0))
          /\ (rsp.root.ErrorMessage # None =>
                 Contains(ret.text, rsp.root.ErrorMessage))
          /\ (WaitRefRegistered =>
                 /\ registry[w.reference_code].status = FAILED
                 /\ registry[w.reference_code].error_message = ret.text)

\* A wait on a registered reference was ended by a fatal first response that
\* carries an ErrorMessage.
C5_Witness ==
    /\ WaitEnded
    /\ EndedByRemoteFatal
    /\ r_count.gets = 1
    /\ rsp.root.ErrorMessage # None
    /\ WaitRefRegistered
    /\ registry[w.reference_code].status = FAILED

\* C6: when the remote stays "not ready" for longer than max_wait_time the
\* wait raises a timeout error whose message names the reference; the registry
\* entry of the reference is then Failed with that message and
\* get_query_status still returns it; and a wait that returns the data sets
\* the entry to Completed, also when an earlier wait on it timed out.
C6_TimeoutKeepsReference ==
    /\ (WaitEnded /\ r_count.gets = r_count.notready) =>
          /\ ret.kind = "raise"
          /\ ret.why = "timeout"
    /\ (WaitEnded /\ ret.kind = "raise" /\ ret.why = "timeout") =>
          /\ Contains(ret.text, w.reference_code)
          /\ (w.reference_code \in DOMAIN reg_before =>
                 /\ GetQueryStatus(registry, w.reference_code).kind = "handle"
                 /\ registry[w.reference_code].status = FAILED
                 /\ registry[w.reference_code].error_message = ret.text
                 /\ registry[w.reference_code].reference_code = w.reference_code)
    /\ (WaitEnded /\ ret.kind = "return" /\ w.reference_code \in DOMAIN reg_before) =>
          registry[w.reference_code].status = COMPLETED

\* A wait returned the data of a reference whose entry an earlier wait had
\* marked Failed with its timeout message; the entry is now Completed.
C6_Witness ==
    /\ WaitEnded
    /\ ret.kind = "return"
    /\ w.reference_code \in DOMAIN reg_before
    /\ reg_before[w.reference_code].status = FAILED
    /\ Contains(reg_before[w.reference_code].error_message, <<"timed", "out">>)
    /\ Contains(reg_before[w.reference_code].error_message, w.reference_code)
    /\ registry[w.reference_code].status = COMPLETED

\* C7: the wait stops as soon as the elapsed time reaches max_wait_time, also
\* in the middle of a backoff sleep: it is never asleep, and never issues a
\* fetch, at an elapsed time greater than or equal to max_wait_time.
C7_StopsAtBudget ==
    pc = "wait" =>
        /\ (w.pc = "sleep" /\ w.elapsed < w.wake) => w.elapsed < w.max_wait_time
        /\ (w.pc = "call" /\ g.pc = "inflight" /\ g.lat = 0) =>
              w.elapsed < w.max_wait_time

\* C8: a wait changes the registry entry of its reference only when it ends
\* (to Completed on success, to Failed on a fatal error or on timeout); while
\* it is still polling, every answer so far having been "not ready", an entry
\* that was Running keeps status Running and has no error_message.
C8_EntryChangesOnlyAtEnd ==
    /\ (pc = "wait" /\ w.reference_code \in DOMAIN reg_before
          /\ reg_before[w.reference_code].status = RUNNING) =>
          /\ registry[w.reference_code].status = RUNNING
          /\ registry[w.reference_code].error_message = None
    /\ (WaitEnded /\ WaitRefRegistered) =>
          registry[w.reference_code].status
            = (IF ret.kind = "return" THEN COMPLETED ELSE FAILED)

\* C9: a retryable transport error (HTTP 5xx or 408, a connection or timeout
\* exception) of a fetch does not fail the wait, which fetches again after a
\* short backoff, up to a cap of its own: a wait that a transport error ends
\* has retried at least once, so it has made more fetches than its "not
\* ready" polls and the last, failed fetch together.
C9_TransportErrorRetried ==
    (WaitEnded /\ ret.kind = "raise" /\ ResponseClass(rsp) = "transport") =>
        r_count.gets > r_count.notready + 1

\* C10: provided every fetch is answered in the end, every wait ends, with
\* exactly one of the parsed records, a fatal error, or the timeout; no count
\* of attempts limits the "not ready" polls: a "not ready" answer never ends
\* the wait, and the timeout is raised only once max_wait_time has elapsed.
C10_WaitTerminates ==
    /\ [](WaitEnded =>
            /\ ResponseClass(rsp) # "notready"
            /\ \/ /\ ret.kind = "return"
                  /\ ResponseClass(rsp) = "data"
               \/ /\ ret.kind = "raise"
                  /\ ret.why = "error"
                  /\ ResponseClass(rsp) \in {"remote_fatal", "transport", "other", "data"}
               \/ /\ ret.kind = "raise"
                  /\ ret.why = "timeout"
                  /\ ResponseClass(rsp) = "none"
                  /\ w.elapsed >= w.max_wait_time)
    /\ ((pc = "wait") ~> WaitEnded)

\* A wait took four "not ready" answers, one per poll, before its budget ended.
C10_Witness ==
    /\ WaitEnded
    /\ ret.kind = "raise"
    /\ ret.why = "timeout"
    /\ r_count.notready = 4
    /\ w.attempt = 4

\* C11: in non-waiting mode (the data route with wait_if_not_ready = false) a
\* "not ready" answer of the remote is surfaced as the "processing" signal
\* (HTTP 202) after a single fetch, with no backoff sleep and no repeated
\* fetch, for every one of the "not ready" phrases.
C11_NotReadySurfacedAt202 ==
    (via.route = "data" /\ ~via.wait_if_not_ready /\ r_count.notready >= 1) =>
        /\ pc = "idle"
        /\ r_count.gets = 1
        /\ g.last_sleep = 0
        /\ (via.pc = "answered" => via.answer.status_code = 202)

\* C12: when a wait made by the data route (wait_if_not_ready = true) runs out
\* of its max_wait_time, the route answers with the timeout signal (HTTP 408)
\* whose detail contains the reference code, not with HTTP 400.
C12_TimeoutAnsweredAt408 ==
    (/\ via.route = "data"
     /\ via.pc = "answered"
     /\ via.wait_if_not_ready
     /\ ret.kind = "raise"
     /\ ret.why = "timeout") =>
        /\ via.answer.status_code = 408
        /\ Contains(via.answer.detail, via.reference_code)

\* The kind of the failure that ended the call, by what happened.
FailureKind ==
    IF ret.op = "wait" /\ ret.why = "timeout" THEN "Timeout"
    ELSE CASE ResponseClass(rsp) = "notready" -> "NotReady"
           [] ResponseClass(rsp) = "transport" -> "RetryableTransport"
           [] ResponseClass(rsp) = "remote_fatal" -> "RemoteFatal"
           [] OTHER -> "Other"

\* The kind the data route reports with a status code.
ReportedKind(status_code) ==
    CASE status_code = 202 -> "NotReady"
      [] status_code = 408 -> "Timeout"
      [] OTHER -> "Error"

\* C13: the kinds of failure reach the caller as distinct, discriminable
\* kinds: the data route reports "processing" exactly for a NotReady failure
\* and "timeout" exactly for a Timeout, and a RemoteFatal error is never
\* reported as NotReady or as Timeout, whatever its message says.
C13_KindsDiscriminable ==
    (via.route = "data" /\ via.pc = "answered" /\ ret.kind = "raise") =>
        /\ (FailureKind = "RemoteFatal" =>
               ReportedKind(via.answer.status_code) \notin {"NotReady", "Timeout"})
        /\ (ReportedKind(via.answer.status_code) = "NotReady"
               <=> FailureKind = "NotReady")
        /\ (ReportedKind(via.answer.status_code) = "Timeout"
               <=> FailureKind = "Timeout")

\* C14: a submission whose query id or token is missing fails with a
\* configuration error before any request is sent to the remote, on every
\* submission entry point.
C14_ConfigErrorBeforeRequest ==
    (/\ via.route \in {"broker_execute", "flex_execute"}
     /\ (via.query_id = Unset \/ via.token = Unset)) =>
        /\ r_count.sends = 0
        /\ via.answer.status_code # 200

\* A fetch or a wait has ended on a data document of the remote.
EndedOnData ==
    /\ pc = "idle"
    /\ ret.op \in {"get", "wait"}
    /\ ResponseClass(rsp) = "data"

\* C15: a numeric field that holds an unparseable value does not abort the
\* parse: the record set is returned with every record present, the field
\* keeping its raw string, and the fetch that made the parse completes (the
\* registry entry becomes Completed, not Failed).
C15_UnparseableFieldKept ==
    EndedOnData =>
        /\ ret.kind = "return"
        /\ ret.value.total_records
             = Len(SelectElems(rsp.root.elems, DataTypeOf(rsp.root.elems),
                               TagOf(DataTypeOf(rsp.root.elems))))
        /\ \A i \in 1..Len(ret.value.records) :
              "quantity" \in DOMAIN ret.value.records[i]
        /\ (g.reference_code \in DOMAIN registry =>
               registry[g.reference_code].status = COMPLETED)

\* A parse has been made and has returned its record set.
Parsed == px.pc = "done" /\ ~px.out.raised

\* The parsed document has an element with this tag.
DocHas(tag) == \E i \in 1..Len(px.elems) : px.elems[i].tag = tag

\* The ids of the document's elements with one of these tags, in document order.
DocIds(tags) ==
    LET sel == SelectSeq(px.elems, LAMBDA e : e.tag \in tags)
    IN  [i \in 1..Len(sel) |-> sel[i].attrib.id]

\* The ids of the returned records, in their order.
RecordIds == [i \in 1..Len(px.out.value.records) |-> px.out.value.records[i].id]

\* C16: the parser chooses one data type by the priority trade >
\* cash_transaction > position > dividend > generic: the type of the first of
\* these with an element in the document; every record comes from an element
\* of that type and no other; generic only when none of the four occurs.
C16_DataTypePriority ==
    Parsed =>
        LET t == px.out.value.data_type
        IN  /\ (t = "trades" <=> DocHas("Trade"))
            /\ (t = "cash_transactions" <=>
                   (~DocHas("Trade") /\ DocHas("CashTransaction")))
            /\ (t = "positions" <=>
                   (~DocHas("Trade") /\ ~DocHas("CashTransaction")
                      /\ DocHas("OpenPosition")))
            /\ (t = "dividends" <=>
                   (~DocHas("Trade") /\ ~DocHas("CashTransaction")
                      /\ ~DocHas("OpenPosition") /\ DocHas("ChangeInDividendAccrual")))
            /\ (t = "generic" <=>
                   (~DocHas("Trade") /\ ~DocHas("CashTransaction")
                      /\ ~DocHas("OpenPosition") /\ ~DocHas("ChangeInDividendAccrual")))
            /\ (t = "trades" => RecordIds = DocIds({"Trade"}))
            /\ (t = "cash_transactions" => RecordIds = DocIds({"CashTransaction"}))
            /\ (t = "positions" => RecordIds = DocIds({"OpenPosition"}))
            /\ (t = "dividends" => RecordIds = DocIds({"ChangeInDividendAccrual"}))
            /\ (t = "generic" => RecordIds = DocIds({"Order"}))

\* A document with a dividend, a cash transaction and a trade, in this order,
\* was parsed as trades, with the one record of its trade.
C16_Witness ==
    /\ Parsed
    /\ Len(px.elems) = 3
    /\ px.elems[1].tag = "ChangeInDividendAccrual"
    /\ px.elems[2].tag = "CashTransaction"
    /\ px.elems[3].tag = "Trade"
    /\ px.out.value.data_type = "trades"
    /\ RecordIds = <<px.elems[3].attrib.id>>

\* The Trade elements of the parsed document, in document order.
DocTrades == SelectSeq(px.elems, LAMBDA e : e.tag = "Trade")

\* Every numeric field of the document's trades holds a number.
TradesNumeric ==
    \A i \in 1..Len(DocTrades) :
        \A k \in {"quantity", "price", "proceeds", "commission", "realizedPL"} :
            k \in DOMAIN DocTrades[i].attrib => IsNumber(DocTrades[i].attrib[k])

MetricsDone == mx.pc = "done"

\* C18: the metrics of an empty record set have every numeric field zero
\* (win_rate, profit_factor, max_drawdown and the three trade counts among
\* them; sharpe_ratio holds no number), and period_start and period_end are
\* the arguments.
C18_EmptyMetricsAllZero ==
    (MetricsDone /\ mx.trade_records = <<>>) =>
        /\ mx.out.total_realized_pnl = 0
        /\ mx.out.total_unrealized_pnl = 0
        /\ mx.out.total_commissions = 0
        /\ mx.out.total_fees = 0
        /\ mx.out.net_pnl = 0
        /\ mx.out.win_rate = Zero
        /\ mx.out.profit_factor = Zero
        /\ mx.out.max_drawdown = Zero
        /\ mx.out.total_trades = 0
        /\ mx.out.winning_trades = 0
        /\ mx.out.losing_trades = 0
        /\ mx.out.avg_winning_trade = Zero
        /\ mx.out.avg_losing_trade = Zero
        /\ mx.out.largest_win = 0
        /\ mx.out.largest_loss = 0
        /\ mx.out.sharpe_ratio = None
        /\ mx.out.period_start = mx.start_date
        /\ mx.out.period_end = mx.end_date

\* The metrics of no trades were computed for a period ending in June.
C18_Witness ==
    /\ MetricsDone
    /\ mx.trade_records = <<>>
    /\ mx.end_date = "2024-06-30"
    /\ mx.out.period_end = "2024-06-30"
    /\ mx.out.total_trades = 0

\* The realized P&L of the i-th record passed, 0 when it has none.
PnlAt(i) ==
    IF "realized_pnl" \in DOMAIN mx.trade_records[i]
    THEN mx.trade_records[i].realized_pnl ELSE 0

\* The sum of the realized P&L of the records at these positions.
RECURSIVE PnlSum(_)
PnlSum(S) ==
    IF S = {} THEN 0
    ELSE LET i == CHOOSE x \in S : TRUE IN PnlAt(i) + PnlSum(S \ {i})

\* The positions of the records with a profit, and of those with a loss.
WinIdx == {i \in 1..Len(mx.trade_records) : PnlAt(i) > 0}

LossIdx == {i \in 1..Len(mx.trade_records) : PnlAt(i) < 0}

\* C19: for a non-empty record set winning_trades counts the records with
\* realized_pnl > 0 and losing_trades those with realized_pnl < 0 (winning +
\* losing <= total_trades), win_rate = winning_trades / total_trades,
\* profit_factor = gross_profit / gross_loss, +infinity exactly when
\* gross_loss = 0, and net_pnl = total_realized_pnl - total_commissions -
\* total_fees.
C19_MetricsOfTrades ==
    (MetricsDone /\ mx.trade_records # <<>>) =>
        /\ mx.out.total_trades = Len(mx.trade_records)
        /\ mx.out.winning_trades = Cardinality(WinIdx)
        /\ mx.out.losing_trades = Cardinality(LossIdx)
        /\ mx.out.winning_trades + mx.out.losing_trades <= mx.out.total_trades
        /\ mx.out.win_rate.n * mx.out.total_trades
             = mx.out.winning_trades * mx.out.win_rate.d
        /\ (mx.out.profit_factor = Inf <=> PnlSum(LossIdx) = 0)
        /\ (PnlSum(LossIdx) # 0 =>
               mx.out.profit_factor.n * (-PnlSum(LossIdx))
                 = PnlSum(WinIdx) * mx.out.profit_factor.d)
        /\ mx.out.total_realized_pnl = PnlSum(1..Len(mx.trade_records))
        /\ mx.out.net_pnl = mx.out.total_realized_pnl - mx.out.total_commissions
                              - mx.out.total_fees

\* One trade of +100 and one of -40, no commissions or fees: win_rate 0.5,
\* profit_factor 2.5, net_pnl 60.
C19_Witness ==
    /\ MetricsDone
    /\ Len(mx.trade_records) = 2
    /\ PnlAt(1) = 10000
    /\ PnlAt(2) = -4000
    /\ mx.out.total_commissions = 0
    /\ mx.out.total_fees = 0
    /\ mx.out.win_rate = [n |-> 1, d |-> 2]
    /\ mx.out.profit_factor = [n |-> 5, d |-> 2]
    /\ mx.out.net_pnl = 6000

\* A connected target has been classified.
Classified == hm.pc = "done"

\* How many of the three sub-checks succeeded.
SucceededCount ==
    (IF hm.account.ok THEN 1 ELSE 0) + (IF hm.market.ok THEN 1 ELSE 0)
      + (IF hm.positions.ok THEN 1 ELSE 0)

\* A quality warning: market data of poor quality (no positive bid and ask),
\* or an account access slower than 5000 ms.
QualityWarning ==
    \/ hm.market.ok /\ ~(hm.market.bid > 0 /\ hm.market.ask > 0)
    \/ hm.account.ok /\ hm.account.duration_ms > 5000

\* C20: a connected target is Healthy if and only if every sub-check
\* succeeded and there is no quality warning; otherwise Degraded if and only
\* if at least 70% of the sub-checks succeeded; otherwise Unhealthy. All
\* sub-checks succeeding with a warning is Degraded, never Healthy.
C20_HealthClassification ==
    Classified =>
        /\ hm.health_status \in {HEALTHY, DEGRADED, UNHEALTHY}
        /\ (hm.health_status = HEALTHY <=> (SucceededCount = 3 /\ ~QualityWarning))
        /\ (hm.health_status = DEGRADED <=>
               (~(SucceededCount = 3 /\ ~QualityWarning)
                  /\ 10 * SucceededCount >= 7 * 3))
        /\ ((SucceededCount = 3 /\ QualityWarning) => hm.health_status = DEGRADED)

\* Every sub-check succeeded, the account access took more than 5000 ms and
\* the market data is good: the target is Degraded.
C20_Witness ==
    /\ Classified
    /\ SucceededCount = 3
    /\ hm.account.duration_ms = 5001
    /\ hm.market.bid > 0
    /\ hm.market.ask > 0
    /\ hm.health_status = DEGRADED

\* C21: with the three sub-checks on a connected target, 3 of 3 succeeding
\* with no warning classifies as Healthy, exactly 2 of 3 succeeding classifies
\* as Degraded, and 0 of 3 succeeding classifies as Unhealthy.
C21_SubCheckCounts ==
    Classified =>
        /\ ((SucceededCount = 3 /\ ~QualityWarning) => hm.health_status = HEALTHY)
        /\ (SucceededCount = 2 => hm.health_status = DEGRADED)
        /\ (SucceededCount = 0 => hm.health_status = UNHEALTHY)

\* A check has ended.
CheckEnded == done.pc = "ended"

\* The check that ended last recorded a health value other than the one
\* recorded before it (none, before the target's first check).
RecordedChange == CheckEnded /\ ~done.escaped /\ done.old # done.health

\* The invocations the check that ended last made are one per subscriber, in
\* order of registration, each with (target_id, new_health).
NotifiedAll ==
    /\ Len(done.invoked) = Len(done.subscribers)
    /\ \A i \in 1..Len(done.invoked) :
          /\ done.invoked[i].callback = done.subscribers[i]
          /\ done.invoked[i].broker_id = done.broker_id
          /\ done.invoked[i].health = done.health

\* C22: over any sequence of monitor ticks and forced checks (with or without
\* a target id), every subscriber callback is invoked exactly once for each
\* change of a target's recorded health value, with (target_id, new_health),
\* and is not invoked when a check records the value recorded before.
C22_CallbackPerChange ==
    CheckEnded =>
        IF RecordedChange THEN NotifiedAll ELSE done.invoked = <<>>

\* A callback raised in the notifications of the check that ended last.
CallbackRaised ==
    CheckEnded /\ \E i \in 1..Len(done.invoked) : done.invoked[i].raised

\* C23: if a subscriber callback raises during a tick, the tick still invokes
\* every remaining callback for that target, still records the target's new
\* result in the health registry, and still checks every remaining registered
\* target.
C23_CallbackRaiseContained ==
    CallbackRaised =>
        /\ NotifiedAll
        /\ ~done.escaped
        /\ done.broker_id \in DOMAIN health_checks
        /\ health_checks[done.broker_id].health = done.health
        /\ done.i < Len(SupportedBrokers) =>
              /\ task[done.task].pc = "check"
              /\ task[done.task].i = done.i + 1

\* The first of two subscribers raised in a loop's tick for the first broker:
\* the second was invoked too, the result is recorded and the check of the
\* second broker is in flight.
C23_Witness ==
    /\ CallbackRaised
    /\ done.task \in LoopTasks
    /\ done.i = 1
    /\ Len(done.subscribers) = 2
    /\ done.invoked[1].raised
    /\ Len(done.invoked) = 2
    /\ health_checks[done.broker_id].health = done.health
    /\ task[done.task].pc = "check"
    /\ task[done.task].i = 2

\* The recovery counter of a target: recovery_attempts.get(broker_id, 0).
Counter(attempts, broker_id) == DictGet(attempts, broker_id, 0)

\* The check that ended last found its target disconnected with the recovery
\* budget spent.
CheckedAtBudget ==
    /\ CheckEnded
    /\ done.status = "disconnected"
    /\ Counter(done.before, done.broker_id) = MaxRecoveryAttempts

\* C24: for every target the recovery counter is between 0 and
\* max_recovery_attempts inclusive; a check of a disconnected target whose
\* counter already equals max_recovery_attempts performs no recovery attempt,
\* leaves the counter unchanged, and reports Unhealthy with
\* details.recovery_attempts equal to the counter.
C24_RecoveryBounded ==
    /\ \A b \in DOMAIN recovery_attempts :
          recovery_attempts[b] \in 0..MaxRecoveryAttempts
    /\ CheckedAtBudget =>
          /\ ~done.attempted
          /\ recovery_attempts = done.before
          /\ done.health = UNHEALTHY
          /\ health_checks[done.broker_id].health = UNHEALTHY
          /\ health_checks[done.broker_id].details.recovery_attempts
                = MaxRecoveryAttempts

\* A fourth check in a row has found ibkr disconnected: no attempt is made and
\* the counter stays at 3.
C24_Witness ==
    /\ CheckedAtBudget
    /\ done.broker_id = "ibkr"
    /\ Counter(recovery_attempts, "ibkr") = MaxRecoveryAttempts
    /\ ~done.attempted

\* C25: whenever a check returns a result with health Healthy for a target,
\* that target's recovery counter is zero immediately afterwards; a check that
\* classifies the target as Degraded or Unhealthy while connected leaves the
\* counter unchanged; and a check of one target never changes another
\* target's counter.
C25_CounterReset ==
    CheckEnded =>
        /\ done.health = HEALTHY =>
              Counter(recovery_attempts, done.broker_id) = 0
        /\ (done.status = "connected" /\ done.health \in {DEGRADED, UNHEALTHY}) =>
              Counter(recovery_attempts, done.broker_id)
                 = Counter(done.before, done.broker_id)
        /\ \A b \in BrokerIds \ {done.broker_id} :
              Counter(recovery_attempts, b) = Counter(done.before, b)

\* ibkr had failed two recoveries and mt5 one when a check found ibkr
\* connected and Healthy: ibkr's counter is zero, mt5's is still one.
C25_Witness ==
    /\ CheckEnded
    /\ done.broker_id = "ibkr"
    /\ done.health = HEALTHY
    /\ Counter(done.before, "ibkr") = 2
    /\ Counter(done.before, "mt5") = 1
    /\ Counter(recovery_attempts, "ibkr") = 0
    /\ Counter(recovery_attempts, "mt5") = 1

\* C26: calling force_health_check(target) twice in a row, with the target's
\* connection status and sub-check outcomes unchanged between the calls,
\* yields two results with the same health value, for every connection status
\* and every starting value of the recovery counter.
C26_ForcedCheckIdempotent ==
    \A f \in ForcedTasks :
        task[f].last.again => task[f].last.health = task[f].last.health_before

\* Two forced checks of ibkr in a row found it disconnected, the first with a
\* last recovery attempt left (counter 2), the second with none (counter 3):
\* both report Unhealthy.
C26_Witness ==
    \E f \in ForcedTasks :
        /\ task[f].last.again
        /\ task[f].last.broker_id = "ibkr"
        /\ task[f].last.status = "disconnected"
        /\ CheckEnded
        /\ done.task = f
        /\ Counter(done.before, "ibkr") = MaxRecoveryAttempts
        /\ task[f].last.health = UNHEALTHY
        /\ task[f].last.health_before = UNHEALTHY

\* What a step of loop l may do after a stop: begin a tick only while the
\* flag is set, leave a tick only after its last target and into the sleep,
\* and end only from the sleep with the flag cleared.
LoopStepAllowed(l) ==
    /\ (task[l].pc \in {"off", "sleep"} /\ task'[l].pc = "check") => monitoring'
    /\ (task[l].pc = "check" /\ task'[l].pc # "check") =>
          /\ task'[l].pc = "sleep"
          /\ task[l].i = Len(SupportedBrokers)
    /\ (task[l].pc = "check" /\ task'[l].pc = "check") =>
          task'[l].i \in {task[l].i, task[l].i + 1}
    /\ (task[l].pc # "off" /\ task'[l].pc = "off") =>
          task[l].pc = "sleep" /\ ~monitoring

\* C27: after stop_monitoring is called and start_monitoring is not called
\* again, the monitor loop begins no new tick and eventually terminates: a
\* stop during a tick lets that tick finish for all targets, and the loop
\* exits at the next tick boundary; the loop does not end before stop is
\* requested.
C27_StopEndsLoop ==
    /\ [][\A l \in LoopTasks : LoopStepAllowed(l)]_vars
    /\ \A l \in LoopTasks :
          (~monitoring /\ task[l].pc # "off") ~> (task[l].pc = "off" \/ monitoring)

\* A loop has run a tick over both brokers and has ended after a stop.
C27_Witness ==
    \E l \in LoopTasks :
        /\ task[l].pc = "off"
        /\ task[l].i = Len(SupportedBrokers)
        /\ ~monitoring
        /\ "mt5" \in DOMAIN health_checks

\* C28: under any interleaving of a monitor tick and forced checks on the same
\* target, the result stored in the health registry for a target is always the
\* one from the most recently started check among those that have completed: a
\* result with an older checked_at never overwrites a stored result with a
\* newer checked_at.
C28_NewestResultKept ==
    [][\A b \in DOMAIN health_checks :
          health_checks'[b].last_check >= health_checks[b].last_check]_vars

\* C29: Unknown is only the initial health of a target: once any check of a
\* target has completed and been recorded, the target's recorded health is one
\* of Healthy, Degraded or Unhealthy and never becomes Unknown again, whatever
\* the probe or the status call does (including raising).
C29_NeverUnknownAgain ==
    \A b \in DOMAIN health_checks :
        health_checks[b].health \in {HEALTHY, DEGRADED, UNHEALTHY}

\* The adapter's status call raised in the check that ended last, and the
\* target is recorded Unhealthy.
C29_Witness ==
    /\ CheckEnded
    /\ done.raised
    /\ health_checks[done.broker_id].health = UNHEALTHY
    /\ health_checks[done.broker_id].error = "adapter failure"

\* C30: during one wait_for_query_completion call, any two consecutive
\* progress signals ('Still waiting ...') are at least 30 seconds apart, and
\* the first one is emitted no earlier than 30 seconds after the wait started,
\* regardless of how often the remote is polled.
C30_ProgressCadence ==
    \A i \in 1..Len(w.progress) :
        /\ w.progress[i] >= 30
        /\ i > 1 => w.progress[i] - w.progress[i - 1] >= 30

\* A wait polling every 3 seconds at first has emitted two progress signals.
C30_Witness ==
    /\ w.check_interval = 3
    /\ Len(w.progress) = 2
    /\ w.iters > 6

DateAt(i) ==
    IF "trade_date" \in DOMAIN mx.trade_records[i]
    THEN mx.trade_records[i].trade_date ELSE 0

\* The position in the records passed of the k-th record replayed: ascending
\* trade_date, records of one date in the order they were passed.
ReplayAt(k) ==
    CHOOSE i \in 1..Len(mx.trade_records) :
        Cardinality({j \in 1..Len(mx.trade_records) :
                        \/ DateAt(j) < DateAt(i)
                        \/ DateAt(j) = DateAt(i) /\ j < i}) = k - 1

\* The cumulative realized P&L after k records of the replay.
RunningAt(k) == PnlSum({ReplayAt(j) : j \in 1..k})

\* The running maximum of the cumulative P&L after k records, from 0.
PeakAt(k) ==
    LET above == {RunningAt(j) : j \in 1..k} \cup {0}
    IN  CHOOSE p \in above : \A q \in above : q <= p

\* C32: for a non-empty record set max_drawdown is the maximum, over the
\* records replayed in ascending trade_date order, of (peak - running) / peak,
\* running being the cumulative realized P&L and peak its running maximum, a
\* step counting 0 while peak <= 0; it is never negative, and it is 0 when the
\* cumulative P&L never rises above zero.
C32_MaxDrawdown ==
    (MetricsDone /\ mx.trade_records # <<>>) =>
        LET dd == mx.out.max_drawdown
            steps == 1..Len(mx.trade_records)
        IN  /\ dd.d > 0
            /\ dd.n >= 0
            /\ \A k \in steps :
                  IF PeakAt(k) > 0
                  THEN (PeakAt(k) - RunningAt(k)) * dd.d <= dd.n * PeakAt(k)
                  ELSE 0 <= dd.n
            /\ \E k \in steps :
                  IF PeakAt(k) > 0
                  THEN (PeakAt(k) - RunningAt(k)) * dd.d = dd.n * PeakAt(k)
                  ELSE dd.n = 0
            /\ (\A k \in steps : RunningAt(k) <= 0) => dd.n = 0

\* A loss of 40 dated after a win of 100 and passed before it: drawdown 0.4.
C32_Witness ==
    /\ MetricsDone
    /\ Len(mx.trade_records) = 2
    /\ PnlAt(1) = -4000
    /\ DateAt(1) = 2
    /\ PnlAt(2) = 10000
    /\ DateAt(2) = 1
    /\ mx.out.max_drawdown = [n |-> 2, d |-> 5]

\* The record lists that hold the records passed, each once, in any order.
Reorderings ==
    LET n == Len(mx.trade_records)
    IN  { [k \in 1..n |-> mx.trade_records[p[k]]] :
            p \in {q \in [1..n -> 1..n] : \A i, j \in 1..n : q[i] = q[j] => i = j} }

\* C36: the metrics depend on the records only, not on the order they are
\* passed in: every reordering of a record list gives the same metrics,
\* max_drawdown among them, also when records share a trade_date or have none.
C36_OrderIndependent ==
    MetricsDone =>
        \A reordered \in Reorderings :
            CalculatePerformanceMetrics(reordered, mx.start_date, mx.end_date)
              = mx.out

\* The monitoring loops that have started and not ended.
ActiveLoops == {l \in LoopTasks : task[l].pc # "off"}

\* C33: at most one monitoring loop is active on a monitor at any time,
\* whatever the interleaving of start_monitoring and stop_monitoring calls,
\* a stop followed by a start during the previous loop's tick or sleep
\* included.
C33_OneLoop == Cardinality(ActiveLoops) <= 1

\* C34: the set of registry keys changes only by a submission that succeeds,
\* which adds one key; get_query_status, get_flex_query_data and
\* wait_for_query_completion add and remove no entry, and on a reference that
\* is not registered they leave the whole registry as it is, whether they
\* return, raise or time out; no operation removes an entry.
C34_RegistryKeys ==
    [][/\ DOMAIN registry \subseteq DOMAIN registry'
       /\ DOMAIN registry' # DOMAIN registry =>
             /\ pc = "idle"
             /\ calls' = calls + 1
             /\ ret'.op = "submit"
             /\ ret'.kind = "return"
             /\ ret'.value.status = RUNNING
             /\ DOMAIN registry' = DOMAIN registry \cup {ret'.value.reference_code}
             /\ Cardinality(DOMAIN registry') = Cardinality(DOMAIN registry) + 1
       /\ (calls' = calls + 1 /\ ret'.op \in {"status", "get", "wait"}) =>
             registry' = registry
       /\ pc \in {"get", "wait"} => DOMAIN registry' = DOMAIN registry
       /\ (pc = "get" /\ g.reference_code \notin DOMAIN registry) =>
             registry' = registry
       /\ (pc = "wait" /\ w.reference_code \notin DOMAIN registry) =>
             registry' = registry]_vars

\* A wait on a reference that is not registered has timed out, with another
\* reference registered.
C34_Witness ==
    /\ pc = "idle"
    /\ ret.op = "wait"
    /\ ret.kind = "raise"
    /\ ret.why = "timeout"
    /\ w.reference_code = UnknownRef
    /\ DOMAIN registry = {RefText(1)}
    /\ registry = reg_before

\* C35: every registry entry is consistent in every reachable state: its
\* status is never Pending; Running implies completed_at and error_message
\* unset; Completed implies completed_at set and error_message unset; Failed
\* implies error_message set and completed_at unset.
C35_EntryConsistent ==
    \A r \in DOMAIN registry :
        LET entry == registry[r]
        IN  /\ entry.status # PENDING
            /\ entry.status = RUNNING =>
                  entry.completed_at = None /\ entry.error_message = None
            /\ entry.status = COMPLETED =>
                  entry.completed_at # None /\ entry.error_message = None
            /\ entry.status = FAILED =>
                  entry.error_message # None /\ entry.completed_at = None

\* C37: however the ticks of the loop and the forced checks of one
\* disconnected target interleave, the recovery attempts executed for the
\* target since its counter was last reset are as many as its counter says and
\* never more than max_recovery_attempts: every executed attempt adds one to
\* the counter, and the counter moves in no other way than back to zero.
C37_NoLostAttempt ==
    [][\A b \in BrokerIds :
          LET executed == /\ done' # done
                          /\ done'.pc = "ended"
                          /\ done'.broker_id = b
                          /\ done'.attempted
              before == Counter(recovery_attempts, b)
              after == Counter(recovery_attempts', b)
          IN  /\ after <= MaxRecoveryAttempts
              /\ executed => (before < MaxRecoveryAttempts /\ after = before + 1)
              /\ ~executed => (after = before \/ after = 0)]_vars

\* A forced check of ibkr has made the second recovery attempt while the
\* loop's check of ibkr, started before it, is still in flight.
C37_Witness ==
    /\ CheckEnded
    /\ done.task \in ForcedTasks
    /\ done.broker_id = "ibkr"
    /\ done.attempted
    /\ Counter(done.before, "ibkr") = 1
    /\ Counter(recovery_attempts, "ibkr") = 2
    /\ \E l \in LoopTasks :
          /\ task[l].pc = "check"
          /\ CurrentBroker(task[l]) = "ibkr"
          /\ health_checks["ibkr"].last_check > task[l].start_time

\* C38: a fetch with max_retries >= 1 sends at most max_retries requests,
\* "not ready" answers and retryable transport failures using up the same
\* attempt counter, and then returns the parsed data or raises, never ending
\* without a result; when it raises, the entry of the reference, if there is
\* one, is Failed with the text of the raised error.
C38_FetchBounded ==
    /\ g.pc # "off" =>
          /\ g.max_retries >= 1
          /\ g.attempt < g.max_retries
    /\ pc = "get" =>
          /\ r_count.gets = g.attempt + (IF g.pc = "inflight" THEN 1 ELSE 0)
          /\ r_count.gets <= g.max_retries
    /\ (pc = "idle" /\ ret.op = "get") =>
          /\ g.pc = "done"
          /\ r_count.gets = g.attempt + 1
          /\ r_count.gets <= g.max_retries
          /\ ret.kind \in {"return", "raise"}
          /\ ret.kind = "return" =>
                /\ ResponseClass(rsp) = "data"
                /\ "records" \in DOMAIN ret.value
          /\ (ret.kind = "raise" /\ g.reference_code \in DOMAIN registry) =>
                /\ registry[g.reference_code].status = FAILED
                /\ registry[g.reference_code].error_message = ret.text

\* A fetch with max_retries = 3 on a registered reference was answered "not
\* ready", then with a retryable transport failure, then with a third failure,
\* and raised after its third request.
C38_Witness ==
    /\ pc = "idle"
    /\ ret.op = "get"
    /\ ret.kind = "raise"
    /\ g.max_retries = 3
    /\ r_count.gets = 3
    /\ r_count.notready = 1
    /\ ResponseClass(rsp) = "transport"
    /\ g.reference_code \in DOMAIN registry
    /\ registry[g.reference_code].error_message = ret.text

\* The recorded targets that are Healthy.
HealthyTargets == {b \in DOMAIN health_checks : health_checks[b].health = HEALTHY}

\* C39: get_health_summary reports overall Unknown exactly when no target
\* has a recorded result; otherwise Healthy exactly when every recorded
\* target is Healthy, Degraded when not all but at least half of them are,
\* and Unhealthy otherwise; healthy_brokers <= total_brokers; and the call
\* changes neither the health registry nor a recovery counter.
C39_HealthSummary ==
    [][hm' # hm =>
          LET out == hm'.out
              recorded == DOMAIN health_checks
          IN  /\ hm'.pc = "summary"
              /\ health_checks' = health_checks
              /\ recovery_attempts' = recovery_attempts
              /\ out.overall = UNKNOWN <=> recorded = {}
              /\ recorded # {} =>
                    /\ out.overall = HEALTHY <=> HealthyTargets = recorded
                    /\ out.overall = DEGRADED <=>
                          /\ HealthyTargets # recorded
                          /\ 2 * Cardinality(HealthyTargets) >= Cardinality(recorded)
                    /\ out.overall = UNHEALTHY <=>
                          2 * Cardinality(HealthyTargets) < Cardinality(recorded)
                    /\ out.healthy_brokers = Cardinality(HealthyTargets)
                    /\ out.total_brokers = Cardinality(recorded)
                    /\ out.healthy_brokers <= out.total_brokers]_vars

\* A summary taken with one of two recorded targets Healthy: Degraded.
C39_Witness ==
    /\ hm.pc = "summary"
    /\ hm.out.overall = DEGRADED
    /\ hm.out.total_brokers = 2
    /\ hm.out.healthy_brokers = 1
    /\ DOMAIN health_checks = {"ibkr", "mt5"}
    /\ Cardinality(HealthyTargets) = 1

====
